---- MODULE Spec2Model ----
(***************************************************************************)
(* Agent Control Plane: the trace recorder, the agent runtime and the      *)
(* stateful replay controller, as state machines.                          *)
(*                                                                         *)
(* Objects that the code shares by reference (the memory map and the       *)
(* context array of an AgentState) live in `heap` and are named by their   *)
(* address; the scalar fields of an AgentState are held by value, which is *)
(* what the object spread { ...state } copies.                             *)
(***************************************************************************)
EXTENDS Integers, Sequences, FiniteSets, TLC

\* ------------------------------------------------------------------ bounds
MaxSteps == 3
MaxHistory == 3
MaxTimers == 2
MaxWrites == 1
MaxRecorded == 3
MaxIterations == 2
MaxFailures == 1
MaxConfirmations == 2

\* ------------------------------------------------------- program constants
DefaultSpeed == 1000
ExtensionPeriod == 1000
DefaultMaxSteps == 50
FastSpeed == 500
ScenarioMaxSteps == 10
FirstConfirmation == 10000

VARIABLES
    trace,              \* controller: this.trace (the loaded Trace)
    currentStepIndex,   \* controller: the cursor, a JavaScript number
    replayState,        \* controller: 'idle' | 'playing' | 'paused' | 'stopped' | 'completed'
    agentState,         \* controller: this.agentState
    autoPlayInterval,   \* controller: the timer handle, Undefined when none
    autoPlaySpeed,      \* controller: milliseconds between steps
    stepHistory,        \* controller: navigation history
    timers,             \* the event loop's active intervals: handle -> period
    heap,               \* address -> memory map or context array
    held,               \* the object a caller got from getAgentState(), or NoObject
    lastCall,           \* the last operation and what it returned
    recorded,           \* history variable: the snapshots as they were loaded or recorded
    halted,             \* history variable: pause()/stop() returned and play() was not called since
    recorderTrace,      \* recorder: this.trace
    autoSave,           \* recorder: this.autoSave
    disk,               \* the artifact <outputDir>/<traceId>.json, NoFile when absent
    state,              \* runtime: this.state, the live AgentState
    recordedFinal,      \* history variable: the final state as it was when finalize took it
    maxSteps,           \* runtime: this.config.maxSteps
    isRunning,          \* runtime: this.isRunning
    pc,                 \* runtime: where run() is: "idle", awaiting "llm" or "tool", "done"
    pending,            \* runtime: the tool whose execute() is awaited, or "none"
    result,             \* runtime: how the promise of run() settled
    tools,              \* runtime: the names of this.tools, the registered tools
    providerStep,       \* LLM provider: currentStep, the calls it has answered
    originalTrace,      \* replay engine: the trace loaded from the file, NoFile before
    playedAt,           \* history variable: the play() call whose playback is awaited
    answer,             \* what the last query of the trace returned to the caller
    faulty,             \* environment: the storage may reject a write
    finalized,          \* history variable: calls of finalize, and steps appended after one
    writeLog            \* history variable: the writes the last call attempted, and those rejected

controllerVars == <<trace, currentStepIndex, replayState, agentState, autoPlayInterval,
                    autoPlaySpeed, stepHistory, timers, held, halted, playedAt, answer>>

recorderVars == <<recorderTrace, autoSave, disk, state, recordedFinal, faulty, finalized,
                  writeLog>>

runtimeVars == <<maxSteps, isRunning, pc, pending, result, tools, providerStep, originalTrace>>

vars == <<controllerVars, recorderVars, runtimeVars, heap, lastCall, recorded>>

\* ------------------------------------------------------ JavaScript numbers
\* A number is an integer v, v + 0.5, or NaN.
Int2Num(i) == [k |-> "int", v |-> i]
Half(i) == [k |-> "half", v |-> i]
NaN == [k |-> "nan", v |-> 0]

Twice(a) == 2 * a.v + (IF a.k = "half" THEN 1 ELSE 0)

\* a < b, a > b, a >= b: false whenever an operand is NaN
NumLt(a, b) == a.k # "nan" /\ b.k # "nan" /\ Twice(a) < Twice(b)
NumGt(a, b) == NumLt(b, a)
NumGe(a, b) == a.k # "nan" /\ b.k # "nan" /\ Twice(a) >= Twice(b)

\* a + d for an integer d (a++ and a--)
NumAdd(a, d) == IF a.k = "nan" THEN a ELSE [a EXCEPT !.v = @ + d]

\* array[a] is an element of an array of length len (otherwise it is undefined)
IsElement(a, len) == a.k = "int" /\ a.v >= 0 /\ a.v < len

Undefined == 0
NoObject ==
    [status |-> "none", currentStep |-> 0, memory |-> 0, context |-> 0,
     lastOutput |-> "undefined"]

\* ------------------------------------------------------------------ text
\* A string is the sequence of its characters.
Quote == "'"
UpperCase == [c \in {"B", "I", "O", "S"} |->
                CASE c = "B" -> "b" [] c = "I" -> "i" [] c = "O" -> "o" [] c = "S" -> "s"]

\* text.toLowerCase()
toLowerCase(text) ==
    [i \in DOMAIN text |-> IF text[i] \in DOMAIN UpperCase THEN UpperCase[text[i]] ELSE text[i]]

\* text.includes(q)
includes(text, q) ==
    \E i \in 0..(Len(text) - Len(q)) : SubSeq(text, i + 1, i + Len(q)) = q

\* The values a step's input and output take in the model: a string, or an
\* object with one property whose value is a string
StringValue(text) == [kind |-> "string", key |-> << >>, text |-> text]
ObjectValue(key, text) == [kind |-> "object", key |-> key, text |-> text]
UndefinedValue == [kind |-> "undefined", key |-> << >>, text |-> << >>]

\* JSON.stringify(value) for a string or an object ('"' is written Quote)
Stringify(value) ==
    IF value.kind = "string" THEN <<Quote>> \o value.text \o <<Quote>>
    ELSE <<"{", Quote>> \o value.key \o <<Quote, ":", Quote>> \o value.text
         \o <<Quote, "}">>

\* the characters of the status values
StatusText(status) ==
    CASE status = "idle" -> <<"i", "d", "l", "e">>
      [] status = "running" -> <<"r", "u", "n", "n", "i", "n", "g">>
      [] status = "completed" -> <<"c", "o", "m", "p", "l", "e", "t", "e", "d">>
      [] status = "failed" -> <<"f", "a", "i", "l", "e", "d">>
      [] status = "paused" -> <<"p", "a", "u", "s", "e", "d">>

\* JSON.stringify(step.stateSnapshot), of which the model writes the status
\* property (the other properties hold none of the words that are searched)
StringifyState(snapshot) ==
    Stringify(ObjectValue(<<"s", "t", "a", "t", "u", "s">>, StatusText(snapshot.status)))

\* ----------------------------------------------------------- loaded traces
\* TraceRecorder.load parses a JSON document: every snapshot has a memory map
\* and a context array of its own. Step i keeps them at MemAddr(i), CtxAddr(i):
\* memory maps at the odd addresses, context arrays at the even ones.
MemAddr(i) == 2 * i - 1
CtxAddr(i) == 2 * i

\* Two families of recorded runs: "growing" (the state advances with every
\* step, as in a run of the agent) and "flat" (every snapshot is the same).
Shapes == {"growing", "flat"}

\* "revised": a client records state steps of a state whose lastOutput alone
\* it sets, after the first step
QueryShapes == Shapes \cup {"revised"}
FlatShapes == {"flat", "revised"}

StepTypeAt(shape, i) ==
    IF shape \in FlatShapes THEN "state"
    ELSE IF i = 1 THEN "start" ELSE IF i % 2 = 0 THEN "llm" ELSE "tool"

\* The memory map holds one entry per tool call, keyed tool_1, tool_2, ...: it
\* is modelled as the sequence of its entries in key order.
MemoryAt(shape, i) ==
    IF shape \in FlatShapes THEN << >>
    ELSE [j \in 1..((i - 1) \div 2) |-> [tool |-> "search", success |-> TRUE]]

ContextAt(shape, i) ==
    IF shape \in FlatShapes THEN << >>
    ELSE [j \in 1..(i \div 2) |-> "llm response"]

\* The input and the output of step i: a 'start' step holds the goal, an
\* 'llm' step a prompt and a response, a 'tool' step a tool name and a
\* result, a 'state' step an action
InputAt(shape, i) ==
    IF shape \in FlatShapes THEN ObjectValue(<<"a", "c", "t">>, <<"s", "e", "t">>)
    ELSE IF i = 1 THEN ObjectValue(<<"g", "o", "a", "l">>, <<"B", "o", "o", "k">>)
    ELSE IF i % 2 = 0 THEN ObjectValue(<<"p", "r", "o", "m", "p", "t">>, <<"B", "o", "o", "k">>)
    ELSE ObjectValue(<<"t", "o", "o", "l">>, <<"s", "e", "a", "r", "c", "h">>)

OutputAt(shape, i) ==
    IF shape \in FlatShapes THEN StringValue(<<"o", "k">>)
    ELSE IF i = 1 THEN ObjectValue(<<"m", "e", "s", "s", "a", "g", "e">>, <<"g", "o">>)
    ELSE IF i % 2 = 0
         THEN ObjectValue(<<"r", "e", "s", "p", "o", "n", "s", "e">>, <<"S", "e", "a", "r", "c", "h">>)
    ELSE ObjectValue(<<"r", "e", "s", "u", "l", "t">>, <<"B", "e", "l", "l", "a">>)

StepAt(shape, i) ==
    [stepNumber |-> i,
     stepType |-> StepTypeAt(shape, i),
     input |-> InputAt(shape, i),
     output |-> OutputAt(shape, i),
     stateSnapshot |->
        [status |-> IF shape \in FlatShapes THEN "idle" ELSE "running",
         currentStep |-> IF shape \in FlatShapes THEN 0 ELSE i \div 2,
         memory |-> MemAddr(i),
         context |-> CtxAddr(i),
         lastOutput |-> IF shape = "flat" \/ (shape = "revised" /\ i < 2)
                            \/ (shape = "growing" /\ i < 3)
                        THEN "undefined" ELSE "llm response"]]

LoadedTrace(shape, n) == [steps |-> [i \in 1..n |-> StepAt(shape, i)]]

LoadedHeap(shape, n) ==
    [a \in 1..(2 * n) |->
        IF a % 2 = 1 THEN MemoryAt(shape, (a + 1) \div 2)
        ELSE ContextAt(shape, a \div 2)]

\* createInitialState(taskId, goal): a fresh state with an empty memory at
\* address m and an empty context at address c
createInitialState(m, c) ==
    [status |-> "idle", currentStep |-> 0, memory |-> m, context |-> c,
     lastOutput |-> "undefined"]

\* The value an AgentState object denotes: its nested objects read from the heap
Deep(h, s) ==
    [status |-> s.status, currentStep |-> s.currentStep,
     memory |-> h[s.memory], context |-> h[s.context], lastOutput |-> s.lastOutput]

\* { ...obj }: a new top-level object with the same fields, nested objects shared
Spread(obj) ==
    [status |-> obj.status, currentStep |-> obj.currentStep,
     memory |-> obj.memory, context |-> obj.context, lastOutput |-> obj.lastOutput]

totalSteps == Len(trace.steps)

\* ---------------------------------------------------------- trace recorder
StepTypes == {"llm", "tool", "decision", "state", "error", "start", "end"}
ToolNames == {"search_restaurants", "book_restaurant"}

NoDeep ==
    [status |-> "none", currentStep |-> 0, memory |-> << >>, context |-> << >>,
     lastOutput |-> "undefined"]

\* finalize was not called on this recorder
NotFinalized == [calls |-> 0, lateSteps |-> 0]

\* the writes a call made: how many it attempted and how many the storage rejected
WriteLog(m) ==
    [attempts |-> m.writes, rejected |-> Cardinality(m.fails \cap (1..m.writes))]

NoWrites == [attempts |-> 0, rejected |-> 0]

\* createTrace(agentId, taskId)
createTrace ==
    [status |-> "running",
     endTime |-> "undefined",
     steps |-> << >>,
     finalState |-> NoObject,
     metadata |-> [toolsUsed |-> << >>, totalLLMCalls |-> 0, totalToolCalls |-> 0]]

NoFile ==
    [status |-> "absent",
     endTime |-> "undefined",
     steps |-> << >>,
     finalState |-> NoDeep,
     metadata |-> [toolsUsed |-> << >>, totalLLMCalls |-> 0, totalToolCalls |-> 0]]

\* The value of a trace object: its fields with the nested objects read from
\* the heap (endTime and finalState are absent until finalize sets them)
Structure(t, h) ==
    [status |-> t.status,
     endTime |-> t.endTime,
     steps |-> [i \in 1..Len(t.steps) |->
                    [t.steps[i] EXCEPT !.stateSnapshot = Deep(h, @)]],
     finalState |-> IF t.finalState = NoObject THEN NoDeep ELSE Deep(h, t.finalState),
     metadata |-> t.metadata]

\* JSON.stringify of a value a tool returned: NaN has no JSON form and is
\* written as null; every other value of the model is written as it is
JsonValue(v) == IF v = NaN THEN [kind |-> "null"] ELSE v

\* JSON.stringify of a step's input or output
JsonPayload(payload) ==
    IF "result" \in DOMAIN payload THEN [payload EXCEPT !.result = JsonValue(@)] ELSE payload

\* JSON.stringify(trace): the document holds values, not references; a
\* property that is undefined is left out
Serialize(t, h) ==
    [status |-> t.status,
     endTime |-> t.endTime,
     steps |-> [i \in 1..Len(t.steps) |->
                    [t.steps[i] EXCEPT !.stateSnapshot = Deep(h, @),
                                       !.input = JsonPayload(@),
                                       !.output = JsonPayload(@)]],
     finalState |-> IF t.finalState = NoObject THEN NoDeep ELSE Deep(h, t.finalState),
     metadata |-> t.metadata]

\* TraceRecorder.load(filepath): JSON.parse(content), the value the document holds
load(file) == file

\* The recorder, the live state and the storage, as one record that a method
\* transforms. `fails` names the writes of this call that the storage
\* rejects (the 1st, the 2nd, ...), which only a faulty storage does; `threw`
\* says an exception is propagating.
Machine(fails) ==
    [trace |-> recorderTrace, heap |-> heap, disk |-> disk, state |-> state,
     recorded |-> recorded, recordedFinal |-> recordedFinal, finalized |-> finalized,
     isRunning |-> isRunning, pc |-> pc, pending |-> pending, result |-> result,
     threw |-> FALSE, writes |-> 0, fails |-> IF faulty THEN fails ELSE {}]

\* mutant: a shallow copy in place of the deep clone
deepClone_Shallow(h, obj) == [obj |-> Spread(obj), heap |-> h]

\* deepClone(obj) = JSON.parse(JSON.stringify(obj)): a new object whose memory
\* map and context array are new objects with the same content
deepClone(h, obj) ==
    [obj |-> [Spread(obj) EXCEPT !.memory = Len(h) + 1, !.context = Len(h) + 2],
     heap |-> h \o <<h[obj.memory], h[obj.context]>>]

\* mutant: step numbers counted from 0
NextStepNumber_ZeroBased(t) == Len(t.steps)

\* stepNumber: this.trace.steps.length + 1
NextStepNumber(t) == Len(t.steps) + 1

\* mutant: a rejected write is swallowed
save_SwallowsError(m) ==
    IF (m.writes + 1) \in m.fails
    THEN [m EXCEPT !.writes = @ + 1]
    ELSE [m EXCEPT !.writes = @ + 1, !.disk = Serialize(m.trace, m.heap)]

\* save(): fs.writeFileSync(filepath, JSON.stringify(this.trace, null, 2))
save(m) ==
    IF (m.writes + 1) \in m.fails
    THEN [m EXCEPT !.writes = @ + 1, !.threw = TRUE]
    ELSE [m EXCEPT !.writes = @ + 1, !.disk = Serialize(m.trace, m.heap)]

\* if (this.autoSave) { this.save(); }
AutoSave(m) == IF autoSave THEN save(m) ELSE m

\* The step literal and this.trace.steps.push(step)
PushStep(m, stepType, input, output, st) ==
    LET c == deepClone(m.heap, st)
        step == [stepNumber |-> NextStepNumber(m.trace),
                 stepType |-> stepType,
                 input |-> input,
                 output |-> output,
                 stateSnapshot |-> c.obj]
    IN [m EXCEPT !.heap = c.heap,
                 !.trace.steps = Append(@, step),
                 !.recorded = Append(@, Deep(m.heap, st)),
                 !.finalized = IF @.calls > 0 THEN [@ EXCEPT !.lateSteps = @ + 1] ELSE @]

recordLLMStep(m, input, output, st) ==
    AutoSave([PushStep(m, "llm", input, output, st) EXCEPT
                !.trace.metadata.totalLLMCalls = @ + 1])

\* mutant: the trace is saved before its metadata is updated
recordToolStep_SavesEarly(m, input, output, st) ==
    [AutoSave(PushStep(m, "tool", input, output, st)) EXCEPT
        !.trace.metadata.totalToolCalls = @ + 1,
        !.trace.metadata.toolsUsed =
            IF \E i \in DOMAIN @ : @[i] = input.toolName THEN @
            ELSE Append(@, input.toolName)]

recordToolStep(m, input, output, st) ==
    AutoSave([PushStep(m, "tool", input, output, st) EXCEPT
                !.trace.metadata.totalToolCalls = @ + 1,
                !.trace.metadata.toolsUsed =
                    IF \E i \in DOMAIN @ : @[i] = input.toolName THEN @
                    ELSE Append(@, input.toolName)])

recordDecisionStep(m, input, output, st) ==
    AutoSave(PushStep(m, "decision", input, output, st))

recordStateStep(m, input, previousState, newState) ==
    AutoSave(PushStep(m, "state", input,
                      [previousState |-> Deep(m.heap, previousState),
                       newState |-> Deep(m.heap, newState)],
                      newState))

recordErrorStep(m, input, output, st) ==
    AutoSave(PushStep(m, "error", input, output, st))

recordStep(m, stepType, input, output, st) ==
    AutoSave(PushStep(m, stepType, input, output, st))

finalize(m, finalState, status) ==
    LET c == deepClone(m.heap, finalState) IN
    save([m EXCEPT !.trace.endTime = "set",
                   !.trace.status = status,
                   !.trace.finalState = c.obj,
                   !.heap = c.heap,
                   !.recordedFinal = Deep(m.heap, finalState),
                   !.finalized.calls = @ + 1])

\* ------------------------------------------------------------ agent runtime
RegisteredTools == ToolNames
UnknownTool == "unknown_tool"
NoResult == [kind |-> "none", success |-> FALSE]

LLMInput == [prompt |-> "Goal"]
LLMOutput == [response |-> "llm response"]
\* what llmProvider.call resolves with, and what tool.execute resolves with
LLMResponse(response, shouldContinue, toolCall) ==
    [response |-> response, shouldContinue |-> shouldContinue, toolCall |-> toolCall]
ToolResult(success, value) == [success |-> success, result |-> value]
NullResult == [kind |-> "null"]
SomeResult == [kind |-> "result"]
ToolInput(name) == [toolName |-> name]
ToolOutput(ok) == [success |-> ok]
ErrorInput(operation) == [operation |-> operation]
ErrorOutput(message, recoverable) == [error |-> message, recoverable |-> recoverable]

\* finally { this.isRunning = false; }
Finally(m) == [m EXCEPT !.isRunning = FALSE]

\* return { success, ... } from inside the try or the catch block
Resolve(m, success) ==
    Finally([m EXCEPT !.pc = "done", !.pending = "none",
                      !.result = [kind |-> "resolved", success |-> success]])

\* an exception leaves run(): the promise rejects
Reject(m) ==
    [m EXCEPT !.pc = "done", !.pending = "none", !.threw = FALSE,
              !.result = [kind |-> "rejected", success |-> FALSE]]

\* mutant: the catch block forgets to mark the state failed
Catch_KeepsStatus(m) ==
    LET c0 == [m EXCEPT !.threw = FALSE]
        c1 == recordErrorStep(c0, ErrorInput("agent_runtime"),
                              ErrorOutput("error", FALSE), c0.state)
        c2 == IF c1.threw THEN c1 ELSE finalize(c1, c1.state, "failed")
        c3 == IF c2.threw THEN c2 ELSE save(c2)
    IN IF c3.threw THEN Finally(Reject(c3)) ELSE Resolve(c3, FALSE)

\* catch (error) { ... } of run()
Catch(m) ==
    LET c0 == [m EXCEPT !.threw = FALSE, !.state.status = "failed"]
        c1 == recordErrorStep(c0, ErrorInput("agent_runtime"),
                              ErrorOutput("error", FALSE), c0.state)
        c2 == IF c1.threw THEN c1 ELSE finalize(c1, c1.state, "failed")
        c3 == IF c2.threw THEN c2 ELSE save(c2)
    IN IF c3.threw THEN Finally(Reject(c3)) ELSE Resolve(c3, FALSE)

\* this.config.maxSteps || 50: a maxSteps of 0 stands for the default
StepLimit == IF maxSteps = 0 THEN DefaultMaxSteps ELSE maxSteps

\* from the end of the loop to the return of the try block
AfterLoop(m) ==
    LET f == [m EXCEPT !.state.status = "failed"]
        a0 == IF m.state.currentStep >= StepLimit
              THEN recordErrorStep(f, ErrorInput("agent_loop"),
                                   ErrorOutput("Max steps exceeded", FALSE), f.state)
              ELSE m
        a1 == IF a0.threw THEN a0
              ELSE recordStep(a0, "end", [finalStep |-> a0.state.currentStep],
                              [status |-> a0.state.status], a0.state)
        a2 == IF a1.threw THEN a1
              ELSE finalize(a1, a1.state,
                            IF a1.state.status = "completed" THEN "completed" ELSE "failed")
        a3 == IF a2.threw THEN a2 ELSE save(a2)
    IN IF a3.threw THEN Catch(a3) ELSE Resolve(a3, a3.state.status = "completed")

\* the while condition and the loop body up to the awaited LLM call
LoopHead(m) ==
    IF m.isRunning /\ m.state.currentStep < StepLimit
    THEN [m EXCEPT !.state.currentStep = @ + 1, !.pc = "llm", !.pending = "none"]
    ELSE AfterLoop(m)

\* the loop body after executeTool returned: the result goes to memory under
\* the key tool_<currentStep>, a failure is recorded as a recoverable error
AfterTool(m, toolName, toolResult) ==
    LET t1 == [m EXCEPT !.heap[m.state.memory] =
                            Append(@, [tool |-> toolName, result |-> toolResult.result,
                                       success |-> toolResult.success])]
        t2 == IF toolResult.success THEN t1
              ELSE recordErrorStep(t1, ErrorInput("tool_call"),
                                   ErrorOutput("Unknown error", TRUE), t1.state)
    IN IF t2.threw THEN Catch(t2) ELSE LoopHead(t2)

\* the loop body after the LLM call resolved
AfterLLM(m, llmResponse) ==
    LET r1 == recordLLMStep(m, LLMInput, [response |-> llmResponse.response], m.state)
        r2 == [r1 EXCEPT !.state.lastOutput = llmResponse.response,
                         !.heap[r1.state.context] = Append(@, llmResponse.response)]
    IN IF r1.threw THEN Catch(r1)
       ELSE IF ~llmResponse.shouldContinue
            THEN AfterLoop([r2 EXCEPT !.state.status = "completed"])
       ELSE IF llmResponse.toolCall = "none" THEN LoopHead(r2)
       ELSE IF llmResponse.toolCall \notin tools
            THEN AfterTool(r2, llmResponse.toolCall, ToolResult(FALSE, NullResult))
       ELSE [r2 EXCEPT !.pc = "tool", !.pending = llmResponse.toolCall]

\* executeTool after tool.execute resolved: a recordToolStep that throws is
\* caught by executeTool's own catch, which records the step again as a failure
ExecuteToolResolved(m, toolResult) ==
    LET e1 == recordToolStep(m, ToolInput(m.pending), toolResult, m.state)
        e2 == recordToolStep([e1 EXCEPT !.threw = FALSE], ToolInput(m.pending),
                             ToolResult(FALSE, NullResult), e1.state)
    IN IF ~e1.threw THEN AfterTool(e1, m.pending, toolResult)
       ELSE IF e2.threw THEN Catch(e2)
       ELSE AfterTool(e2, m.pending, ToolResult(FALSE, NullResult))

\* mutant: executeTool lets the tool's exception through to run()
ExecuteToolRejected_Rethrows(m) == Catch(m)

\* executeTool after tool.execute rejected
ExecuteToolRejected(m) ==
    LET e1 == recordToolStep(m, ToolInput(m.pending), ToolResult(FALSE, NullResult),
                             m.state)
    IN IF e1.threw THEN Catch(e1) ELSE AfterTool(e1, m.pending, ToolResult(FALSE, NullResult))

\* run(taskId, goal) up to its first await
run(m) ==
    LET s0 == createInitialState(Len(m.heap) + 1, Len(m.heap) + 2)
        r0 == [m EXCEPT !.heap = @ \o <<<< >>, << >>>>,
                        !.state = [s0 EXCEPT !.status = "running"],
                        !.trace = createTrace,
                        !.disk = NoFile,
                        !.recorded = << >>,
                        !.recordedFinal = NoDeep,
                        !.finalized = NotFinalized,
                        !.result = NoResult,
                        !.isRunning = TRUE]
        r1 == recordStep(r0, "start", [goal |-> "Goal"], [message |-> "Agent started"],
                         r0.state)
    IN IF r1.threw THEN Reject(r1) ELSE LoopHead(r1)

\* AgentRuntime.stop()
runtimeStop(m) == [m EXCEPT !.isRunning = FALSE, !.state.status = "paused"]

\* ------------------------------------------------------------- controller
\* The controller's fields and the timers, as one record a method transforms.
World ==
    [currentStepIndex |-> currentStepIndex, replayState |-> replayState,
     agentState |-> agentState, autoPlayInterval |-> autoPlayInterval,
     autoPlaySpeed |-> autoPlaySpeed, stepHistory |-> stepHistory,
     timers |-> timers, ret |-> "void"]

\* clearInterval(handle)
clearInterval(tm, handle) == [i \in DOMAIN tm \ {handle} |-> tm[i]]

\* setInterval(callback, period): a handle that names no active interval
FreshHandle(tm) == CHOOSE i \in 1..(MaxTimers + 1) : i \notin DOMAIN tm /\ \A j \in 1..(i - 1) : j \in DOMAIN tm
setInterval(tm, period) ==
    [i \in DOMAIN tm \cup {FreshHandle(tm)} |-> IF i \in DOMAIN tm THEN tm[i] ELSE period]

\* mutant: the last index taken for the length
canPlayForward_OffByOne(w) == NumLt(w.currentStepIndex, Int2Num(totalSteps))

canPlayForward(w) == NumLt(w.currentStepIndex, Int2Num(totalSteps - 1))
canPlayBackward(w) == NumGt(w.currentStepIndex, Int2Num(0))

\* mutant: the share of the trace that is still ahead
Percent_Remaining(c, t) ==
    IF c.k = "nan" THEN NaN
    ELSE Int2Num((100 * (2 * t - Twice(c)) + t) \div (2 * t))

\* Math.round((c / t) * 100) for t > 0: the nearest integer, a half rounded up.
\* (For the lengths modelled, c / t * 100 is never within a rounding error of
\* a half.)
Percent(c, t) ==
    IF c.k = "nan" THEN NaN
    ELSE Int2Num((100 * Twice(c) + t) \div (2 * t))

\* getStatus()
getStatus(w) ==
    [state |-> w.replayState,
     currentStepIndex |-> w.currentStepIndex,
     totalSteps |-> totalSteps,
     canPlayForward |-> NumLt(w.currentStepIndex, Int2Num(totalSteps - 1)),
     canPlayBackward |-> NumGt(w.currentStepIndex, Int2Num(0)),
     progress |-> IF totalSteps > 0 THEN Percent(w.currentStepIndex, totalSteps)
                  ELSE Int2Num(0)]

\* getStatus().canJump(stepNumber)
canJump(stepNumber) ==
    NumGe(stepNumber, Int2Num(0)) /\ NumLt(stepNumber, Int2Num(totalSteps))

\* updateAgentState(): reading trace.steps[i].stateSnapshot of an undefined
\* element throws a TypeError
updateAgentState(w) ==
    IF NumLt(w.currentStepIndex, Int2Num(totalSteps))
    THEN IF IsElement(w.currentStepIndex, totalSteps)
         THEN [w EXCEPT !.agentState = Spread(trace.steps[w.currentStepIndex.v + 1].stateSnapshot)]
         ELSE [w EXCEPT !.ret = "throw"]
    ELSE w

\* this.updateAgentState(); this.stepHistory.push(this.currentStepIndex); return true
UpdateAndPush(w) ==
    LET u == updateAgentState(w) IN
    IF u.ret = "throw" THEN u
    ELSE [u EXCEPT !.stepHistory = Append(@, u.currentStepIndex), !.ret = "true"]

\* mutant: stop() that also rewinds, as its comment "Stop playback and reset" reads
stop_Rewinds(w) ==
    [w EXCEPT
        !.timers = IF w.autoPlayInterval # Undefined THEN clearInterval(@, w.autoPlayInterval) ELSE @,
        !.autoPlayInterval = Undefined,
        !.replayState = "stopped",
        !.currentStepIndex = Int2Num(0)]

stop(w) ==
    [w EXCEPT
        !.timers = IF w.autoPlayInterval # Undefined THEN clearInterval(@, w.autoPlayInterval) ELSE @,
        !.autoPlayInterval = Undefined,
        !.replayState = "stopped"]

\* mutant: pause() that forgets clearInterval
pause_KeepsTimer(w) == [w EXCEPT !.replayState = "paused"]

pause(w) ==
    [w EXCEPT
        !.timers = IF w.autoPlayInterval # Undefined THEN clearInterval(@, w.autoPlayInterval) ELSE @,
        !.autoPlayInterval = Undefined,
        !.replayState = "paused"]

\* mutant: reset() that keeps the navigation history
reset_KeepsHistory(w) ==
    LET s == stop(w) IN
    [s EXCEPT
        !.currentStepIndex = Int2Num(0),
        !.agentState = IF totalSteps > 0 THEN Spread(trace.steps[1].stateSnapshot) ELSE @]

reset(w) ==
    LET s == stop(w) IN
    [s EXCEPT
        !.currentStepIndex = Int2Num(0),
        !.stepHistory = << >>,
        !.agentState = IF totalSteps > 0 THEN Spread(trace.steps[1].stateSnapshot) ELSE @]

\* mutant: play() without the "already playing" early return
play_NoPlayingGuard(w, speed) ==
    LET r == IF w.replayState = "completed" THEN reset(w) ELSE w IN
    [r EXCEPT
        !.replayState = "playing",
        !.autoPlaySpeed = speed,
        !.timers = setInterval(@, speed),
        !.autoPlayInterval = FreshHandle(r.timers)]

\* mutant: play() that does not reset a completed playback
play_NoResetWhenCompleted(w, speed) ==
    IF w.replayState = "playing" THEN w
    ELSE [w EXCEPT
            !.replayState = "playing",
            !.autoPlaySpeed = speed,
            !.timers = setInterval(@, speed),
            !.autoPlayInterval = FreshHandle(w.timers)]

play(w, speed) ==
    LET r == IF w.replayState = "completed" THEN reset(w) ELSE w IN
    IF r.replayState = "playing" THEN r
    ELSE [r EXCEPT
            !.replayState = "playing",
            !.autoPlaySpeed = speed,
            !.timers = setInterval(@, speed),
            !.autoPlayInterval = FreshHandle(r.timers)]

stepForward(w) ==
    IF ~canPlayForward(w) THEN [w EXCEPT !.ret = "false"]
    ELSE UpdateAndPush([w EXCEPT !.currentStepIndex = NumAdd(@, 1)])

\* mutant: stepping back takes the playback out of 'playing' and 'completed'
stepBackward_Pauses(w) ==
    IF ~canPlayBackward(w) THEN [w EXCEPT !.ret = "false"]
    ELSE UpdateAndPush([w EXCEPT
            !.currentStepIndex = NumAdd(@, -1),
            !.replayState = IF @ \in {"playing", "completed"} THEN "paused" ELSE @])

stepBackward(w) ==
    IF ~canPlayBackward(w) THEN [w EXCEPT !.ret = "false"]
    ELSE UpdateAndPush([w EXCEPT !.currentStepIndex = NumAdd(@, -1)])

\* mutant: the upper bound of the range check off by one
jumpToStep_InclusiveEnd(w, stepNumber) ==
    IF NumLt(stepNumber, Int2Num(0)) \/ NumGt(stepNumber, Int2Num(totalSteps))
    THEN [w EXCEPT !.ret = "false"]
    ELSE UpdateAndPush([w EXCEPT !.currentStepIndex = stepNumber])

jumpToStep(w, stepNumber) ==
    IF NumLt(stepNumber, Int2Num(0)) \/ NumGe(stepNumber, Int2Num(totalSteps))
    THEN [w EXCEPT !.ret = "false"]
    ELSE UpdateAndPush([w EXCEPT !.currentStepIndex = stepNumber])

jumpToStart(w) == updateAgentState([w EXCEPT !.currentStepIndex = Int2Num(0)])

jumpToEnd(w) ==
    updateAgentState([w EXCEPT !.currentStepIndex =
        Int2Num(IF totalSteps - 1 > 0 THEN totalSteps - 1 ELSE 0)])

\* mutant: the callback marks the playback completed and forgets stop()
tick_KeepsTimer(w) ==
    IF canPlayForward(w) THEN [stepForward(w) EXCEPT !.ret = "void"]
    ELSE [w EXCEPT !.replayState = "completed"]

\* the setInterval callback of play()
tick(w) ==
    IF canPlayForward(w) THEN [stepForward(w) EXCEPT !.ret = "void"]
    ELSE [stop(w) EXCEPT !.replayState = "completed"]

\* ------------------------------------------------- the VS Code extension
\* The extension keeps its own replay state in module variables: replayState
\* (state, currentStepIndex and flags derived from them), autoPlayInterval and
\* currentTrace. They are modelled by the fields of the same names.

\* stopAutoPlay()
stopAutoPlay(w) ==
    [w EXCEPT
        !.timers = IF w.autoPlayInterval # Undefined THEN clearInterval(@, w.autoPlayInterval) ELSE @,
        !.autoPlayInterval = Undefined]

\* replayPlayCommand(): the interval is set whatever the state was
replayPlayCommand(w) ==
    [w EXCEPT
        !.replayState = "playing",
        !.timers = setInterval(@, ExtensionPeriod),
        !.autoPlayInterval = FreshHandle(w.timers)]

\* replayPauseCommand()
replayPauseCommand(w) == [stopAutoPlay(w) EXCEPT !.replayState = "paused"]

\* replayStopCommand()
replayStopCommand(w) ==
    [stopAutoPlay(w) EXCEPT !.replayState = "stopped", !.currentStepIndex = Int2Num(0)]

\* replayNextCommand()
replayNextCommand(w) ==
    LET s == stopAutoPlay(w) IN
    [s EXCEPT
        !.currentStepIndex = IF NumLt(@, Int2Num(totalSteps - 1)) THEN NumAdd(@, 1) ELSE @,
        !.replayState = "paused"]

\* the setInterval callback of replayPlayCommand()
replayTick(w) ==
    IF NumLt(w.currentStepIndex, Int2Num(totalSteps - 1))
    THEN [w EXCEPT !.currentStepIndex = NumAdd(@, 1)]
    ELSE [stopAutoPlay(w) EXCEPT !.replayState = "completed"]

\* ---------------------------------------------------------------- queries
\* The steps a query selects are named by their indexes in trace.steps, in
\* the order of the result.
Select(s, kept) ==
    LET F[i \in 0..Len(s)] ==
            IF i = 0 THEN << >>
            ELSE IF i \in kept THEN Append(F[i - 1], i) ELSE F[i - 1]
    IN F[Len(s)]

\* StatefulReplayController.getStepsByType(stepType)
getStepsByType(t, stepType) ==
    LET OfType(step) == step.stepType = stepType IN Select(t.steps, {i \in DOMAIN t.steps : OfType(t.steps[i])})

\* StatefulReplayController.searchSteps(query): JSON.stringify of the input
\* and of the output, lower-cased, includes the lower-cased query
searchSteps(t, query) ==
    LET lowerQuery == toLowerCase(query)
        Matches(step) ==
            \/ includes(toLowerCase(Stringify(step.input)), lowerQuery)
            \/ includes(toLowerCase(Stringify(step.output)), lowerQuery)
    IN Select(t.steps, {i \in DOMAIN t.steps : Matches(t.steps[i])})

\* StepInspector.safeString(value): a string as it is, any other value in
\* its JSON form, undefined as the empty string
safeString(value) ==
    IF value.kind = "undefined" THEN << >>
    ELSE IF value.kind = "string" THEN value.text
    ELSE Stringify(value)

\* StepInspector.getStepsByType(stepType)
InspectorGetStepsByType(t, stepType) ==
    LET OfType(step) == step.stepType = stepType IN Select(t.steps, {i \in DOMAIN t.steps : OfType(t.steps[i])})

\* StepInspector.searchSteps(query): input, output, stateSnapshot and
\* metadata are searched; the steps of a loaded trace carry no metadata
InspectorSearchSteps(t, query) ==
    LET q == toLowerCase(query)
        Matches(step) ==
            \/ includes(toLowerCase(safeString(step.input)), q)
            \/ includes(toLowerCase(safeString(step.output)), q)
            \/ includes(toLowerCase(StringifyState(step.stateSnapshot)), q)
            \/ includes(toLowerCase(safeString(UndefinedValue)), q)
    IN Select(t.steps, {i \in DOMAIN t.steps : Matches(t.steps[i])})

\* null, and an absent property
Null == [kind |-> "null"]
Absent == [kind |-> "undefined"]

\* One line of a state comparison: `${label}: ${from} -> ${to}`
Difference(label, from, to) == [label |-> label, from |-> from, to |-> to]

\* the ReplaySnapshot built of a step
SnapshotOf(step) ==
    [stepNumber |-> step.stepNumber, stepType |-> step.stepType,
     input |-> step.input, output |-> step.output,
     agentState |-> Spread(step.stateSnapshot)]

\* this.trace.steps[index] of a number: undefined unless the number is the
\* index of a step
HasStepAt(index) == index.k = "int" /\ index.v >= 0 /\ index.v < totalSteps

\* Array.prototype.slice(start, end) of an array of len elements, as the
\* sequence of the 0-based indexes it takes: a negative argument counts from
\* the end of the array, and both are clamped to 0..len
RelativeIndex(len, i) ==
    IF i < 0 THEN (IF len + i > 0 THEN len + i ELSE 0)
    ELSE (IF i < len THEN i ELSE len)

slice(len, start, end) ==
    LET k == RelativeIndex(len, start)
        final == RelativeIndex(len, end)
    IN [j \in 1..(IF final > k THEN final - k ELSE 0) |-> k + j - 1]

\* StatefulReplayController.getStepRange(startStep, endStep): the snapshots
\* of this.trace.steps.slice(startStep, endStep + 1)
getStepRange(startStep, endStep) ==
    LET taken == slice(totalSteps, startStep, endStep + 1)
    IN [j \in DOMAIN taken |-> SnapshotOf(trace.steps[taken[j] + 1])]

\* a TypeError leaves the call
Thrown == [kind |-> "throw"]

\* StatefulReplayController.getCurrentStep() of a controller at currentStepIndex:
\* reading step.stepNumber of an undefined element throws a TypeError
getCurrentStep(index) ==
    IF NumLt(index, Int2Num(0)) \/ NumGe(index, Int2Num(totalSteps)) THEN Null
    ELSE IF IsElement(index, totalSteps) THEN SnapshotOf(trace.steps[index.v + 1])
    ELSE Thrown

\* mutant: compareSteps that leaves the memory out of the comparison
compareSteps_SkipsMemory(stepNumber1, stepNumber2) ==
    LET both == HasStepAt(stepNumber1) /\ HasStepAt(stepNumber2)
        state1 == Deep(heap, trace.steps[stepNumber1.v + 1].stateSnapshot)
        state2 == Deep(heap, trace.steps[stepNumber2.v + 1].stateSnapshot)
    IN [step1 |-> IF HasStepAt(stepNumber1)
                  THEN SnapshotOf(trace.steps[stepNumber1.v + 1]) ELSE Null,
        step2 |-> IF HasStepAt(stepNumber2)
                  THEN SnapshotOf(trace.steps[stepNumber2.v + 1]) ELSE Null,
        stateDifferences |->
            IF ~both THEN << >>
            ELSE (IF state1.status # state2.status
                  THEN <<Difference("status", state1.status, state2.status)>>
                  ELSE << >>)
              \o (IF state1.currentStep # state2.currentStep
                  THEN <<Difference("currentStep", ToString(state1.currentStep),
                                    ToString(state2.currentStep))>>
                  ELSE << >>)
              \o (IF FALSE
                  THEN <<Difference("memory size", ToString(Len(state1.memory)),
                                    ToString(Len(state2.memory)))>>
                  ELSE << >>)
              \o (IF Len(state1.context) # Len(state2.context)
                  THEN <<Difference("context items", ToString(Len(state1.context)),
                                    ToString(Len(state2.context)))>>
                  ELSE << >>)]

\* StatefulReplayController.compareSteps(stepNumber1, stepNumber2)
compareSteps(stepNumber1, stepNumber2) ==
    LET both == HasStepAt(stepNumber1) /\ HasStepAt(stepNumber2)
        state1 == Deep(heap, trace.steps[stepNumber1.v + 1].stateSnapshot)
        state2 == Deep(heap, trace.steps[stepNumber2.v + 1].stateSnapshot)
    IN [step1 |-> IF HasStepAt(stepNumber1)
                  THEN SnapshotOf(trace.steps[stepNumber1.v + 1]) ELSE Null,
        step2 |-> IF HasStepAt(stepNumber2)
                  THEN SnapshotOf(trace.steps[stepNumber2.v + 1]) ELSE Null,
        stateDifferences |->
            IF ~both THEN << >>
            ELSE (IF state1.status # state2.status
                  THEN <<Difference("status", state1.status, state2.status)>>
                  ELSE << >>)
              \o (IF state1.currentStep # state2.currentStep
                  THEN <<Difference("currentStep", ToString(state1.currentStep),
                                    ToString(state2.currentStep))>>
                  ELSE << >>)
              \o (IF Len(state1.memory) # Len(state2.memory)
                  THEN <<Difference("memory size", ToString(Len(state1.memory)),
                                    ToString(Len(state2.memory)))>>
                  ELSE << >>)
              \o (IF Len(state1.context) # Len(state2.context)
                  THEN <<Difference("context items", ToString(Len(state1.context)),
                                    ToString(Len(state2.context)))>>
                  ELSE << >>)]

\* The index in trace.steps of the step numbered n, 0 when there is none:
\* this.trace.steps.find((s) => s.stepNumber === n)
FindStep(n) ==
    IF \E i \in 1..totalSteps : Int2Num(trace.steps[i].stepNumber) = n
    THEN CHOOSE i \in 1..totalSteps :
            /\ Int2Num(trace.steps[i].stepNumber) = n
            /\ \A j \in 1..(i - 1) : Int2Num(trace.steps[j].stepNumber) # n
    ELSE 0

\* safeString of a property of a state: undefined gives the empty string
ShownOutput(lastOutput) == IF lastOutput = "undefined" THEN "" ELSE lastOutput

\* StepInspector.formatState(step, previousStep).changes, the steps given by
\* their indexes (previous = 0: no previous step): every property but memory
\* and context is compared, then the number of memory keys and of context items
formatState(step, previous) ==
    IF previous = 0 THEN << >>
    ELSE
        LET prev == Deep(heap, trace.steps[previous].stateSnapshot)
            curr == Deep(heap, trace.steps[step].stateSnapshot)
        IN (IF prev.status # curr.status
            THEN <<Difference("status", prev.status, curr.status)>> ELSE << >>)
        \o (IF prev.currentStep # curr.currentStep
            THEN <<Difference("currentStep", ToString(prev.currentStep),
                              ToString(curr.currentStep))>>
            ELSE << >>)
        \o (IF prev.lastOutput # curr.lastOutput
            THEN <<Difference("lastOutput", ShownOutput(prev.lastOutput),
                              ShownOutput(curr.lastOutput))>>
            ELSE << >>)
        \o (IF Len(prev.memory) # Len(curr.memory)
            THEN <<Difference("memory keys", ToString(Len(prev.memory)),
                              ToString(Len(curr.memory)))>>
            ELSE << >>)
        \o (IF Len(prev.context) # Len(curr.context)
            THEN <<Difference("context items", ToString(Len(prev.context)),
                              ToString(Len(curr.context)))>>
            ELSE << >>)

\* mutant: inspectStep that takes its argument as an index of trace.steps, as
\* the controller's jumpToStep does
inspectStep_ByIndex(stepNumber) ==
    LET step == IF HasStepAt(stepNumber) THEN stepNumber.v + 1 ELSE 0
        previousStep == IF step > 1 THEN step - 1 ELSE 0
        nextStep == IF step < totalSteps THEN step + 1 ELSE 0
    IN IF step = 0 THEN Null
       ELSE [kind |-> "inspection",
             stepNumber |-> trace.steps[step].stepNumber,
             stepType |-> trace.steps[step].stepType,
             state |-> [raw |-> trace.steps[step].stateSnapshot,
                        changes |-> formatState(step, previousStep)],
             navigation |->
                [hasPrevious |-> previousStep # 0,
                 hasNext |-> nextStep # 0,
                 previousStep |-> IF previousStep # 0
                                  THEN Int2Num(trace.steps[previousStep].stepNumber)
                                  ELSE Absent,
                 nextStep |-> IF nextStep # 0
                              THEN Int2Num(trace.steps[nextStep].stepNumber)
                              ELSE Absent]]

\* StepInspector.inspectStep(stepNumber)
inspectStep(stepNumber) ==
    LET step == FindStep(stepNumber)
        previousStep == FindStep([stepNumber EXCEPT !.v = @ - 1])
        nextStep == FindStep([stepNumber EXCEPT !.v = @ + 1])
    IN IF step = 0 THEN Null
       ELSE [kind |-> "inspection",
             stepNumber |-> trace.steps[step].stepNumber,
             stepType |-> trace.steps[step].stepType,
             state |-> [raw |-> trace.steps[step].stateSnapshot,
                        changes |-> formatState(step, previousStep)],
             navigation |->
                [hasPrevious |-> previousStep # 0,
                 hasNext |-> nextStep # 0,
                 previousStep |-> IF previousStep # 0
                                  THEN Int2Num(trace.steps[previousStep].stepNumber)
                                  ELSE Absent,
                 nextStep |-> IF nextStep # 0
                              THEN Int2Num(trace.steps[nextStep].stepNumber)
                              ELSE Absent]]

\* mutant: getStepSeverity that takes every tool step without a true
\* output.success for a failure
getStepSeverity_Truthy(step) ==
    IF step.stepType = "error" THEN "error"
    ELSE IF step.stepType = "tool"
            /\ ~("success" \in DOMAIN step.output /\ step.output.success = TRUE)
         THEN "error"
    ELSE "ok"

\* StepInspector.getStepSeverity(step): tool.output?.success === false
getStepSeverity(step) ==
    IF step.stepType = "error" THEN "error"
    ELSE IF step.stepType = "tool"
            /\ "success" \in DOMAIN step.output /\ step.output.success = FALSE
         THEN "error"
    ELSE "ok"

\* StepInspector.getStepSummary(step), without the text of the summary
getStepSummary(step) ==
    [stepNumber |-> step.stepNumber,
     stepType |-> step.stepType,
     hasError |-> getStepSeverity(step) = "error",
     severity |-> getStepSeverity(step)]

\* StepInspector.getOverview() of an inspector of the trace t, without the
\* identifiers and the duration
getOverview(t) ==
    [status |-> t.status,
     stepCount |-> Len(t.steps),
     llmCalls |-> t.metadata.totalLLMCalls,
     toolCalls |-> t.metadata.totalToolCalls,
     errors |-> Cardinality({i \in DOMAIN t.steps : getStepSeverity(t.steps[i]) = "error"}),
     toolsUsed |-> t.metadata.toolsUsed,
     stepSummaries |-> [i \in DOMAIN t.steps |-> getStepSummary(t.steps[i])]]

\* ---------------------------------------------------------------- actions
\* Commit the controller fields of the result w of operation op(arg). The
\* history is capped at MaxHistory entries and the handles at MaxTimers.
CommitController(op, arg, w, nowHalted) ==
    /\ Len(w.stepHistory) <= MaxHistory
    /\ DOMAIN w.timers \subseteq 1..MaxTimers
    /\ currentStepIndex' = w.currentStepIndex
    /\ replayState' = w.replayState
    /\ agentState' = w.agentState
    /\ autoPlayInterval' = w.autoPlayInterval
    /\ autoPlaySpeed' = w.autoPlaySpeed
    /\ stepHistory' = w.stepHistory
    /\ timers' = w.timers
    /\ lastCall' = [op |-> op, arg |-> arg, ret |-> w.ret, from |-> replayState]
    /\ halted' = nowHalted
    /\ UNCHANGED answer

Commit(op, arg, w, nowHalted) ==
    /\ CommitController(op, arg, w, nowHalted)
    /\ UNCHANGED <<trace, heap, held, recorded, playedAt, recorderVars, runtimeVars>>

NoArg == Int2Num(0)

\* no query was made
NoAnswer == [op |-> "none"]

\* A query of the loaded trace returns: the controller's fields stay as they are
Answer(op, value) ==
    /\ answer' = value
    /\ lastCall' = [op |-> op, arg |-> NoArg, ret |-> "returned", from |-> replayState]
    /\ UNCHANGED <<trace, currentStepIndex, replayState, agentState, autoPlayInterval,
                   autoPlaySpeed, stepHistory, timers, held, halted, playedAt,
                   heap, recorded, recorderVars, runtimeVars>>

\* the caller's query strings
Queries ==
    {<< >>, <<"b", "o", "o", "k">>, <<"S", "E", "A">>, <<"r", "u", "n">>, <<"i", "d">>,
     <<Quote>>, <<"z">>}

\* searchSteps(query) of a controller and of an inspector of the same trace
SearchSteps ==
    \E query \in Queries :
        Answer("searchSteps",
               [op |-> "searchSteps", query |-> query,
                controller |-> searchSteps(trace, query),
                inspector |-> InspectorSearchSteps(trace, query)])

\* getStepsByType(type) of a controller and of an inspector of the same trace
GetStepsByType ==
    \E stepType \in StepTypes :
        Answer("getStepsByType",
               [op |-> "getStepsByType", stepType |-> stepType,
                controller |-> getStepsByType(trace, stepType),
                inspector |-> InspectorGetStepsByType(trace, stepType)])

Play ==
    \E speed \in {DefaultSpeed, FastSpeed} :
        Commit("play", Int2Num(speed), play(World, speed), FALSE)

Pause == Commit("pause", NoArg, pause(World), TRUE)

Stop == Commit("stop", NoArg, stop(World), TRUE)

Reset == Commit("reset", NoArg, reset(World), TRUE)

StepForward == Commit("stepForward", NoArg, stepForward(World), halted)

StepBackward == Commit("stepBackward", NoArg, stepBackward(World), halted)

\* jumpToStep(n) with an integer n
IntegerArgs == {Int2Num(i) : i \in -1..(MaxSteps + 1)}
JumpToStep ==
    \E n \in IntegerArgs : Commit("jumpToStep", n, jumpToStep(World, n), halted)

\* jumpToStep(n) with any number n: the parameter's type is number
NumberArgs == IntegerArgs \cup {Half(i) : i \in -1..MaxSteps} \cup {NaN}
JumpToNumber ==
    \E n \in NumberArgs : Commit("jumpToStep", n, jumpToStep(World, n), halted)

JumpToStart == Commit("jumpToStart", NoArg, jumpToStart(World), halted)

JumpToEnd == Commit("jumpToEnd", NoArg, jumpToEnd(World), halted)

\* No play() call is awaited
NoPlay ==
    [on |-> FALSE, from |-> "idle", cursor |-> Int2Num(0), history |-> << >>,
     start |-> Int2Num(0), startHistory |-> << >>]

\* play(speed), after which the caller only waits for 'completed' (the CLI's
\* 'play' command). The cap on the history leaves room for the playback.
PlayAndWait ==
    \E speed \in {DefaultSpeed, FastSpeed} :
        LET w == play(World, speed) IN
        /\ ~playedAt.on
        /\ Len(w.stepHistory) + (totalSteps - 1 - w.currentStepIndex.v) <= MaxHistory
        /\ CommitController("play", Int2Num(speed), w, FALSE)
        /\ playedAt' = [on |-> TRUE, from |-> replayState,
                        cursor |-> currentStepIndex, history |-> stepHistory,
                        start |-> w.currentStepIndex, startHistory |-> w.stepHistory]
        /\ UNCHANGED <<trace, heap, held, recorded, recorderVars, runtimeVars>>

\* an active interval fires: one run of its callback
Tick ==
    \E handle \in DOMAIN timers : Commit("tick", Int2Num(handle), tick(World), halted)

\* getStatus() and getCurrentStep() of the controller
GetStatus == Answer("getStatus", [op |-> "getStatus", value |-> getStatus(World)])

GetCurrentStep ==
    Answer("getCurrentStep",
           [op |-> "getCurrentStep", value |-> getCurrentStep(currentStepIndex)])

\* getAgentState(): the caller receives { ...this.agentState }
GetAgentState ==
    /\ held' = Spread(agentState)
    /\ CommitController("getAgentState", NoArg, World, halted)
    /\ UNCHANGED <<trace, heap, recorded, playedAt, recorderVars, runtimeVars>>

\* The caller writes to the object it holds: a top-level field, an entry of
\* its memory map, an element pushed on its context array. The writes that
\* reach the heap are capped at MaxWrites.
CallerEntry == [tool |-> "caller", success |-> FALSE]
CallerString == "caller"

RECURSIVE CountWrites(_, _)
CountWrites(h, a) ==
    IF a = 0 THEN 0
    ELSE Cardinality({j \in DOMAIN h[a] :
                        h[a][j] = (IF a % 2 = 1 THEN CallerEntry ELSE CallerString)})
         + CountWrites(h, a - 1)

CallerWrites(op) ==
    /\ held # NoObject
    /\ CommitController(op, NoArg, World, halted)
    /\ UNCHANGED <<trace, recorded, playedAt, recorderVars, runtimeVars>>

MutateStatus ==
    /\ CallerWrites("held.status=")
    /\ held' = [held EXCEPT !.status = "failed"]
    /\ UNCHANGED heap

MutateMemory ==
    /\ CallerWrites("held.memory[k]=")
    /\ CountWrites(heap, Len(heap)) < MaxWrites
    /\ heap' = [heap EXCEPT ![held.memory] = Append(@, CallerEntry)]
    /\ UNCHANGED held

MutateContext ==
    /\ CallerWrites("held.context.push")
    /\ CountWrites(heap, Len(heap)) < MaxWrites
    /\ heap' = [heap EXCEPT ![held.context] = Append(@, CallerString)]
    /\ UNCHANGED held

\* new StatefulReplayController(trace) on a trace of n steps
InitController(shape, n) ==
    /\ trace = LoadedTrace(shape, n)
    /\ currentStepIndex = Int2Num(0)
    /\ replayState = "idle"
    /\ agentState = IF n > 0 THEN Spread(StepAt(shape, 1).stateSnapshot)
                    ELSE createInitialState(1, 2)
    /\ autoPlayInterval = Undefined
    /\ autoPlaySpeed = DefaultSpeed
    /\ stepHistory = << >>
    /\ timers = << >>
    /\ held = NoObject
    /\ halted = FALSE
    /\ playedAt = NoPlay
    /\ answer = NoAnswer

\* new TraceRecorder(agentId, taskId, {autoSave}) and a live state
InitRecorder(auto) ==
    /\ recorderTrace = createTrace
    /\ autoSave = auto
    /\ disk = NoFile
    /\ state = createInitialState(1, 2)
    /\ recordedFinal = NoDeep
    /\ finalized = NotFinalized
    /\ writeLog = NoWrites

\* new AgentRuntime(config) with config.maxSteps = n
InitRuntimeWith(n, toolNames) ==
    /\ maxSteps = n
    /\ tools = toolNames
    /\ providerStep = 0
    /\ originalTrace = NoFile
    /\ isRunning = FALSE
    /\ pc = "idle"
    /\ pending = "none"
    /\ result = NoResult

InitRuntime(n) == InitRuntimeWith(n, RegisteredTools)

NewCall == [op |-> "new", arg |-> NoArg, ret |-> "void", from |-> "idle"]

\* A controller on a loaded trace (no recorder writes that trace any more)
InitLoaded(shape, n) ==
    /\ InitController(shape, n)
    /\ InitRecorder(TRUE)
    /\ InitRuntime(MaxIterations)
    /\ faulty = FALSE
    /\ heap = IF n > 0 THEN LoadedHeap(shape, n) ELSE <<<< >>, << >>>>
    /\ recorded = [i \in 1..n |-> Deep(LoadedHeap(shape, n), StepAt(shape, i).stateSnapshot)]
    /\ lastCall = NewCall

Init == \E shape \in Shapes, n \in 0..MaxSteps : InitLoaded(shape, n)

\* A controller and an inspector on a loaded trace of any client
InitQuery == \E shape \in QueryShapes, n \in 0..MaxSteps : InitLoaded(shape, n)

\* A recorder with a client (no controller reads the trace being written)
InitRecording ==
    \E auto \in BOOLEAN :
        /\ InitController("flat", 0)
        /\ InitRecorder(auto)
        /\ InitRuntime(MaxIterations)
        /\ faulty = TRUE
        /\ heap = <<<< >>, << >>>>
        /\ recorded = << >>
        /\ lastCall = NewCall

\* ------------------------------------------------------- recorder actions
\* Commit the result m of the recorder operation op. The trace is capped at
\* MaxRecorded steps.
CommitRecorder(op, m) ==
    /\ Len(m.trace.steps) <= MaxRecorded
    /\ recorderTrace' = m.trace
    /\ heap' = m.heap
    /\ disk' = m.disk
    /\ state' = m.state
    /\ recorded' = m.recorded
    /\ recordedFinal' = m.recordedFinal
    /\ finalized' = m.finalized
    /\ writeLog' = WriteLog(m)
    /\ lastCall' = [op |-> op, arg |-> NoArg,
                    ret |-> IF m.threw THEN "throw" ELSE "returned", from |-> "idle"]
    /\ UNCHANGED <<controllerVars, runtimeVars, autoSave, faulty>>

\* the storage rejects up to MaxFailures of the n writes of a call
WriteFailures(n) == {f \in SUBSET (1..n) : Cardinality(f) <= MaxFailures}

RecordLLMStep ==
    \E fails \in WriteFailures(1) :
        CommitRecorder("recordLLMStep",
                       recordLLMStep(Machine(fails), LLMInput, LLMOutput, state))

RecordToolStep ==
    \E fails \in WriteFailures(1), name \in ToolNames :
        CommitRecorder("recordToolStep",
                       recordToolStep(Machine(fails), ToolInput(name), ToolOutput(TRUE), state))

RecordDecisionStep ==
    \E fails \in WriteFailures(1) :
        CommitRecorder("recordDecisionStep",
                       recordDecisionStep(Machine(fails), [options |-> "a|b"], [chosen |-> "a"], state))

RecordStateStep ==
    \E fails \in WriteFailures(1) :
        CommitRecorder("recordStateStep",
                       recordStateStep(Machine(fails), [action |-> "update"], state, state))

RecordErrorStep ==
    \E fails \in WriteFailures(1) :
        CommitRecorder("recordErrorStep",
                       recordErrorStep(Machine(fails), ErrorInput("tool_call"),
                                       ErrorOutput("Unknown error", TRUE), state))

\* recordStep(stepType, input, output, state): a 'tool' step is given a tool's input
RecordStep ==
    \E fails \in WriteFailures(1),
       call \in {[stepType |-> t, input |-> [goal |-> "Goal"]] : t \in StepTypes \ {"tool"}}
                \cup {[stepType |-> "tool", input |-> ToolInput(name)] : name \in ToolNames} :
        CommitRecorder("recordStep",
                       recordStep(Machine(fails), call.stepType, call.input,
                                  [message |-> "Agent started"], state))

\* recordToolStep with the result of a tool that returns a number or an object
ResultValues == {SomeResult, Int2Num(3), NaN}

RecordToolResult ==
    \E fails \in WriteFailures(1), name \in ToolNames, value \in ResultValues :
        CommitRecorder("recordToolStep",
                       recordToolStep(Machine(fails), ToolInput(name),
                                      ToolResult(TRUE, value), state))

\* save(), called by the recorder's client
Save ==
    \E fails \in WriteFailures(1) : CommitRecorder("save", save(Machine(fails)))

\* finalize(finalState, status), called once by the recorder's client
Finalize ==
    \E fails \in WriteFailures(1), status \in {"completed", "failed"} :
        /\ finalized.calls = 0
        /\ CommitRecorder("finalize", finalize(Machine(fails), state, status))

\* --------------------------------------------------------- runtime actions
CommitSegment(op, m) ==
    /\ recorderTrace' = m.trace
    /\ heap' = m.heap
    /\ disk' = m.disk
    /\ state' = m.state
    /\ recorded' = m.recorded
    /\ recordedFinal' = m.recordedFinal
    /\ finalized' = m.finalized
    /\ writeLog' = WriteLog(m)
    /\ isRunning' = m.isRunning
    /\ pc' = m.pc
    /\ pending' = m.pending
    /\ result' = m.result
    /\ lastCall' = [op |-> op, arg |-> NoArg,
                    ret |-> IF m.result.kind = "rejected" THEN "throw" ELSE "returned",
                    from |-> "idle"]
    /\ UNCHANGED <<controllerVars, autoSave, maxSteps, tools, faulty>>

\* a segment of a run whose LLM provider and tools are any at all
CommitRuntime(op, m) == CommitSegment(op, m) /\ UNCHANGED <<providerStep, originalTrace>>

\* a segment of run() performs at most 9 writes
Run ==
    \E fails \in WriteFailures(9) :
        /\ pc = "idle"
        /\ CommitRuntime("run", run(Machine(fails)))

LLMResolves ==
    \E fails \in WriteFailures(9), shouldContinue \in BOOLEAN,
       toolCall \in {"none", UnknownTool} \cup RegisteredTools :
        /\ pc = "llm"
        /\ CommitRuntime(IF ~shouldContinue THEN "llm.resolve.done"
                         ELSE IF toolCall = UnknownTool THEN "llm.resolve.unknownTool"
                         ELSE "llm.resolve",
                         AfterLLM(Machine(fails),
                                  LLMResponse("llm response", shouldContinue, toolCall)))

LLMRejects ==
    \E fails \in WriteFailures(9) :
        /\ pc = "llm"
        /\ CommitRuntime("llm.reject", Catch(Machine(fails)))

ToolResolves ==
    \E fails \in WriteFailures(9), ok \in BOOLEAN :
        /\ pc = "tool"
        /\ CommitRuntime(IF ok THEN "tool.resolve" ELSE "tool.fail",
                         ExecuteToolResolved(Machine(fails),
                             ToolResult(ok, IF ok THEN SomeResult ELSE NullResult)))

ToolRejects ==
    \E fails \in WriteFailures(9) :
        /\ pc = "tool"
        /\ CommitRuntime("tool.reject", ExecuteToolRejected(Machine(fails)))

RuntimeStop == CommitRuntime("runtime.stop", runtimeStop(Machine({})))

\* ------------------------------------------- the restaurant-booking agent
\* RESTAURANTS of tools.ts
RESTAURANTS ==
    <<[name |-> "Bella Italia", cuisine |-> "italian", location |-> "downtown",
       available |-> TRUE],
      [name |-> "Pasta Palace", cuisine |-> "italian", location |-> "downtown",
       available |-> TRUE],
      [name |-> "Trattoria Roma", cuisine |-> "italian", location |-> "downtown",
       available |-> FALSE],
      [name |-> "Le Petit Bistro", cuisine |-> "french", location |-> "downtown",
       available |-> TRUE]>>

\* getTools(): the names of the three demo tools
getTools == {"search_restaurants", "check_availability", "book_restaurant"}

\* Math.floor(10000 + Math.random() * 90000): one of the 90000 numbers from
\* 10000 on, of which the model draws the first MaxConfirmations
ConfirmationNumbers == FirstConfirmation..(FirstConfirmation + MaxConfirmations - 1)

\* RESTAURANTS.find(r => r.name.toLowerCase() === restaurantName.toLowerCase()):
\* the index of the first match, 0 when there is none (the names of the
\* scenario are spelled as in RESTAURANTS)
FindRestaurant(restaurantName) ==
    LET found == {i \in DOMAIN RESTAURANTS : RESTAURANTS[i].name = restaurantName}
    IN IF found = {} THEN 0 ELSE CHOOSE i \in found : \A j \in found : i <= j

searchRestaurantsTool(params) ==
    LET results == {i \in DOMAIN RESTAURANTS :
                        /\ RESTAURANTS[i].cuisine = params.cuisine
                        /\ RESTAURANTS[i].location = params.location}
    IN ToolResult(TRUE, [count |-> Cardinality(results),
                         restaurants |-> {RESTAURANTS[i].name : i \in results}])

checkAvailabilityTool(params) ==
    LET i == FindRestaurant(params.restaurant)
    IN IF i = 0 THEN ToolResult(FALSE, NullResult)
       ELSE ToolResult(TRUE, [restaurant |-> RESTAURANTS[i].name,
                              available |-> RESTAURANTS[i].available,
                              date |-> params.date, time |-> params.time])

\* confirmationNumber is the number Math.random() gave this call
bookRestaurantTool(params, confirmationNumber) ==
    LET i == FindRestaurant(params.restaurant)
    IN IF i = 0 THEN ToolResult(FALSE, NullResult)
       ELSE IF ~RESTAURANTS[i].available THEN ToolResult(FALSE, NullResult)
       ELSE ToolResult(TRUE, [confirmation |-> confirmationNumber,
                              restaurant |-> RESTAURANTS[i].name,
                              date |-> params.date, time |-> params.time,
                              name |-> params.name])

\* tool.execute(parameters) of the registered tool toolName
execute(toolName, params, confirmationNumber) ==
    CASE toolName = "search_restaurants" -> searchRestaurantsTool(params)
      [] toolName = "check_availability" -> checkAvailabilityTool(params)
      [] toolName = "book_restaurant" -> bookRestaurantTool(params, confirmationNumber)

NoToolCall == [toolName |-> "none", parameters |-> [none |-> TRUE]]

\* RESTAURANT_SCENARIO.stepPatterns
RESTAURANT_SCENARIO ==
    <<[stepNum |-> 1,
       response |-> "I need to search for Italian restaurants in the downtown area.",
       toolCall |-> [toolName |-> "search_restaurants",
                     parameters |-> [cuisine |-> "italian", location |-> "downtown"]],
       shouldContinue |-> TRUE],
      [stepNum |-> 2,
       response |-> "Found 3 Italian restaurants. Let me check availability at Bella Italia for tonight.",
       toolCall |-> [toolName |-> "check_availability",
                     parameters |-> [restaurant |-> "Bella Italia", date |-> "2024-01-15",
                                     time |-> "19:00"]],
       shouldContinue |-> TRUE],
      [stepNum |-> 3,
       response |-> "Bella Italia has availability at 7 PM. Making the reservation.",
       toolCall |-> [toolName |-> "book_restaurant",
                     parameters |-> [restaurant |-> "Bella Italia", date |-> "2024-01-15",
                                     time |-> "19:00", name |-> "John Doe"]],
       shouldContinue |-> TRUE],
      [stepNum |-> 4,
       response |-> "DONE. Successfully booked a table at Bella Italia for 2 people at 7 PM on January 15th. Confirmation #12345.",
       toolCall |-> NoToolCall,
       shouldContinue |-> FALSE]>>

\* The pattern the provider answers its k-th call with:
\* scenarioData.stepPatterns.find(p => p.stepNum === currentStep), or the
\* default end response
PatternOf(k) ==
    LET found == {i \in DOMAIN RESTAURANT_SCENARIO : RESTAURANT_SCENARIO[i].stepNum = k}
    IN IF found = {}
       THEN [stepNum |-> k, response |-> "DONE. Task completed.",
             toolCall |-> NoToolCall, shouldContinue |-> FALSE]
       ELSE RESTAURANT_SCENARIO[CHOOSE i \in found : \A j \in found : i <= j]

\* llmProvider.call(request) resolves, for the provider of createLLMProvider()
ProviderResolves ==
    LET pattern == PatternOf(providerStep + 1) IN
    /\ pc = "llm"
    /\ providerStep' = providerStep + 1
    /\ UNCHANGED originalTrace
    /\ CommitSegment("llm.resolve",
                     AfterLLM(Machine({}),
                              LLMResponse(pattern.response, pattern.shouldContinue,
                                          pattern.toolCall.toolName)))

\* tool.execute(parameters) resolves, for the tools of getTools(); the
\* parameters are those of the provider's last answer
DemoToolResolves ==
    \E confirmationNumber \in ConfirmationNumbers :
        /\ pc = "tool"
        /\ UNCHANGED <<providerStep, originalTrace>>
        /\ CommitSegment("tool.resolve",
                         ExecuteToolResolved(Machine({}),
                             execute(pending, PatternOf(providerStep).toolCall.parameters,
                                     confirmationNumber)))

\* ReplayEngine.replayFromFile(path) up to the first await of the new run:
\* the original trace is loaded, a runtime with the same configuration and a
\* new provider runs the same goal
ReplayFromFile ==
    /\ pc = "done"
    /\ originalTrace = NoFile
    /\ disk # NoFile
    /\ originalTrace' = disk
    /\ providerStep' = 0
    /\ CommitSegment("replayFromFile", run(Machine({})))

\* the divergences of the replay trace r from the original trace o
Divergences(o, r) ==
    LET both == DOMAIN o.steps \cap DOMAIN r.steps IN
    {[stepNumber |-> i, type |-> "step_type_mismatch"] :
        i \in {j \in both : o.steps[j].stepType # r.steps[j].stepType}}
    \cup {[stepNumber |-> i, type |-> "output_mismatch"] :
        i \in {j \in both : o.steps[j].output # r.steps[j].output}}
    \cup {[stepNumber |-> i, type |-> "missing_step"] : i \in DOMAIN o.steps \ DOMAIN r.steps}
    \cup {[stepNumber |-> i, type |-> "extra_step"] : i \in DOMAIN r.steps \ DOMAIN o.steps}

\* the ReplayResult of comparing the original trace o with the replay trace r
Compare(o, r) ==
    LET match == Len(o.steps) = Len(r.steps)
        stateMatch == o.finalState = r.finalState
    IN [stepCount |-> [original |-> Len(o.steps), replay |-> Len(r.steps), match |-> match],
        stateMatch |-> stateMatch,
        divergences |-> Divergences(o, r),
        success |-> Divergences(o, r) = {} /\ stateMatch /\ match]

\* The runner's agent (src/agent): any maxSteps up to the runner's 10, the
\* scripted provider, the demo tools, a storage that accepts every write
InitReplay ==
    \E n \in 1..ScenarioMaxSteps :
        /\ InitController("flat", 0)
        /\ InitRecorder(TRUE)
        /\ InitRuntimeWith(n, getTools)
        /\ faulty = FALSE
        /\ heap = <<<< >>, << >>>>
        /\ recorded = << >>
        /\ lastCall = NewCall

NextReplay ==
    \/ Run
    \/ ProviderResolves
    \/ DemoToolResolves
    \/ ReplayFromFile

SpecReplay == InitReplay /\ [][NextReplay]_vars

\* A runtime with maxSteps = n, before run() is called
InitRuntimeOn(storageFaulty) ==
    \E n \in 1..MaxIterations :
        /\ InitController("flat", 0)
        /\ InitRecorder(TRUE)
        /\ InitRuntime(n)
        /\ faulty = storageFaulty
        /\ heap = <<<< >>, << >>>>
        /\ recorded = << >>
        /\ lastCall = NewCall

\* on a storage that may reject writes
InitRunning == InitRuntimeOn(TRUE)

\* on a storage that accepts every write
InitReliable == InitRuntimeOn(FALSE)

NextRunning ==
    \/ Run
    \/ LLMResolves
    \/ LLMRejects
    \/ ToolResolves
    \/ ToolRejects
    \/ RuntimeStop

SpecRunning == InitRunning /\ [][NextRunning]_vars

\* A runtime configured with maxSteps: 0 on a storage that accepts every
\* write; its LLM asks for no tool
InitZeroSteps ==
    /\ InitController("flat", 0)
    /\ InitRecorder(TRUE)
    /\ InitRuntime(0)
    /\ faulty = FALSE
    /\ heap = <<<< >>, << >>>>
    /\ recorded = << >>
    /\ lastCall = NewCall

LLMAnswers ==
    \E shouldContinue \in BOOLEAN :
        /\ pc = "llm"
        /\ CommitRuntime(IF shouldContinue THEN "llm.resolve" ELSE "llm.resolve.done",
                         AfterLLM(Machine({}),
                                  LLMResponse("llm response", shouldContinue, "none")))

NextZeroSteps ==
    \/ Run
    \/ LLMAnswers
    \/ LLMRejects

SpecZeroSteps == InitZeroSteps /\ [][NextZeroSteps]_vars

\* The runtime while the storage accepts every write
SpecReliable == InitReliable /\ [][NextRunning]_vars

NextRecording ==
    \/ RecordLLMStep
    \/ RecordToolStep
    \/ RecordDecisionStep
    \/ RecordStateStep
    \/ RecordErrorStep
    \/ RecordStep

SpecRecording == InitRecording /\ [][NextRecording]_vars

\* A recorder with auto-save on (the default) on a storage that may reject
\* writes; its client records steps and finalizes
InitStorage ==
    /\ InitController("flat", 0)
    /\ InitRecorder(TRUE)
    /\ InitRuntime(MaxIterations)
    /\ faulty = TRUE
    /\ heap = <<<< >>, << >>>>
    /\ recorded = << >>
    /\ lastCall = NewCall

NextStorage ==
    \/ RecordLLMStep
    \/ RecordToolStep
    \/ RecordDecisionStep
    \/ RecordStateStep
    \/ RecordErrorStep
    \/ Finalize

SpecStorage == InitStorage /\ [][NextStorage]_vars

\* A recorder on a storage that accepts every write; its client records
\* steps, tool results among them, finalizes and saves
InitRoundTrip ==
    /\ InitController("flat", 0)
    /\ InitRecorder(TRUE)
    /\ InitRuntime(MaxIterations)
    /\ faulty = FALSE
    /\ heap = <<<< >>, << >>>>
    /\ recorded = << >>
    /\ lastCall = NewCall

NextRoundTrip ==
    \/ RecordLLMStep
    \/ RecordToolResult
    \/ Finalize
    \/ Save

SpecRoundTrip == InitRoundTrip /\ [][NextRoundTrip]_vars

\* recordToolStep of a tool that succeeded or failed
RecordToolOutcome ==
    \E fails \in WriteFailures(1), ok \in BOOLEAN :
        CommitRecorder("recordToolStep",
                       recordToolStep(Machine(fails), ToolInput("search"), ToolOutput(ok), state))

\* new StepInspector(recorder.getTrace()).getOverview()
GetOverview ==
    Answer("getOverview", [op |-> "getOverview", value |-> getOverview(recorderTrace)])

\* A recorder whose client records steps of every kind, and an inspector of
\* its trace
NextOverview ==
    \/ RecordLLMStep
    \/ RecordToolOutcome
    \/ RecordErrorStep
    \/ RecordStep
    \/ GetOverview

SpecOverview == InitRoundTrip /\ [][NextOverview]_vars

\* The extension's replay commands, run from the palette or the panel, and
\* the firing of an interval that is active
ReplayPlayCommand == Commit("acp.replay.play", NoArg, replayPlayCommand(World), FALSE)

ReplayPauseCommand == Commit("acp.replay.pause", NoArg, replayPauseCommand(World), TRUE)

ReplayStopCommand == Commit("acp.replay.stop", NoArg, replayStopCommand(World), TRUE)

ReplayNextCommand == Commit("acp.replay.next", NoArg, replayNextCommand(World), halted)

ReplayTick ==
    \E handle \in DOMAIN timers :
        Commit("acp.replay.tick", Int2Num(handle), replayTick(World), halted)

\* the extension with a trace opened
InitExtension == \E shape \in Shapes, n \in 1..MaxSteps : InitLoaded(shape, n)

NextExtension ==
    \/ ReplayPlayCommand
    \/ ReplayPauseCommand
    \/ ReplayStopCommand
    \/ ReplayNextCommand
    \/ ReplayTick

SpecExtension == InitExtension /\ [][NextExtension]_vars

\* inspectStep(n) of an inspector of the trace
InspectStep ==
    \E n \in IntegerArgs :
        Answer("inspectStep", [op |-> "inspectStep", stepNumber |-> n, value |-> inspectStep(n)])

\* compareSteps(a, b) of a controller of the trace
CompareSteps ==
    \E a \in IntegerArgs, b \in IntegerArgs :
        Answer("compareSteps",
               [op |-> "compareSteps", stepNumber1 |-> a, stepNumber2 |-> b,
                value |-> compareSteps(a, b)])

\* getStepRange(start, end) of a controller of the trace, with integers
RangeArgs == (-2)..(MaxSteps + 1)
GetStepRange ==
    \E start \in RangeArgs, end \in RangeArgs :
        Answer("getStepRange",
               [op |-> "getStepRange", startStep |-> start, endStep |-> end,
                value |-> getStepRange(start, end)])

\* The documented pattern: results = controller.searchSteps(...) or
\* getStepsByType(...), then controller.jumpToStep(results[k].stepNumber)
JumpToResult ==
    \E k \in 1..(MaxSteps + 1) :
        /\ answer.op \in {"searchSteps", "getStepsByType"}
        /\ k <= Len(answer.controller)
        /\ LET s == SnapshotOf(trace.steps[answer.controller[k]])
           IN Commit("jumpToStep", Int2Num(s.stepNumber),
                     jumpToStep(World, Int2Num(s.stepNumber)), halted)

\* A controller and an inspector of one loaded trace, queried
NextQuery ==
    \/ SearchSteps
    \/ GetStepsByType
    \/ InspectStep
    \/ CompareSteps
    \/ GetStepRange

SpecQuery == InitQuery /\ [][NextQuery]_vars

\* A controller searched, and moved to the results of the search
NextSearch ==
    \/ SearchSteps
    \/ GetStepsByType
    \/ JumpToResult

SpecSearch == InitQuery /\ [][NextSearch]_vars

\* The controller driven with integer arguments: navigation and playback.
Next ==
    \/ Play
    \/ Pause
    \/ Stop
    \/ Reset
    \/ StepForward
    \/ StepBackward
    \/ JumpToStep
    \/ JumpToStart
    \/ JumpToEnd
    \/ Tick

Spec == Init /\ [][Next]_vars

\* A session that ends with play() and a wait for the playback to complete;
\* an active interval keeps firing.
NextPlayback ==
    \/ /\ ~playedAt.on
       /\ \/ JumpToStep
          \/ Play
          \/ Pause
          \/ Stop
          \/ PlayAndWait
    \/ Tick

SpecPlayback == Init /\ [][NextPlayback]_vars /\ WF_vars(Tick)

\* The controller's navigation driven with any JavaScript number.
NextNumber ==
    \/ JumpToNumber
    \/ StepForward
    \/ StepBackward
    \/ JumpToStart
    \/ JumpToEnd
    \/ Reset

SpecNumber == Init /\ [][NextNumber]_vars

\* Manual navigation and reads while a playback is idle, running or completed.
NextNavigate ==
    \/ Play
    \/ Tick
    \/ StepForward
    \/ StepBackward
    \/ JumpToStep
    \/ JumpToStart
    \/ JumpToEnd
    \/ GetStatus
    \/ GetCurrentStep

\* A controller on a loaded trace of MaxSteps steps with flat snapshots
InitNavigate == InitLoaded("flat", MaxSteps)

SpecNavigate == InitNavigate /\ [][NextNavigate]_vars

\* A caller that navigates, reads the agent state and writes to what it got.
NextCaller ==
    \/ JumpToStep
    \/ GetAgentState
    \/ MutateStatus
    \/ MutateMemory
    \/ MutateContext

SpecCaller == Init /\ [][NextCaller]_vars

\* ================================================================= claims
\* n is a number with 0 <= n < totalSteps
InRange(n) == n.k # "nan" /\ 0 <= Twice(n) /\ Twice(n) < 2 * totalSteps

FirstSnapshot == Spread(trace.steps[1].stateSnapshot)

\* C1: jumpToStep(n) returns true iff 0 <= n < totalSteps; for every n outside
\* that range it returns false without throwing and leaves currentStepIndex,
\* agentState, navigationHistory and playbackState as they were.
C1_JumpValidity ==
    [][lastCall'.op = "jumpToStep" =>
        /\ lastCall'.ret = "true" <=> InRange(lastCall'.arg)
        /\ ~InRange(lastCall'.arg) =>
              /\ lastCall'.ret = "false"
              /\ UNCHANGED <<currentStepIndex, agentState, stepHistory, replayState>>]_vars

C3_NoTickAfterPauseOrStop == [][halted => lastCall'.op # "tick"]_vars

C3_Witness ==
    /\ halted
    /\ lastCall.op = "pause"
    /\ lastCall.from = "playing"
    /\ stepHistory # << >>

\* C4: at most one playback timer is active, one is active exactly when
\* playbackState is 'playing', and play() while playing changes neither the
\* cursor, the state, the tick interval nor the timers.
C4_TimerState ==
    /\ Cardinality(DOMAIN timers) <= 1
    /\ DOMAIN timers # {} <=> replayState = "playing"
    /\ replayState = "playing" =>
          /\ autoPlayInterval \in DOMAIN timers
          /\ timers[autoPlayInterval] = autoPlaySpeed

C4_SingleTimer ==
    /\ []C4_TimerState
    /\ [][(replayState = "playing" /\ lastCall'.op = "play") =>
            UNCHANGED <<currentStepIndex, replayState, agentState, stepHistory,
                        autoPlaySpeed, autoPlayInterval, timers>>]_vars

C4_Witness ==
    /\ lastCall.op = "play"
    /\ lastCall.from = "playing"
    /\ lastCall.arg = Int2Num(FastSpeed)
    /\ autoPlaySpeed = DefaultSpeed
    /\ Cardinality(DOMAIN timers) = 1

\* the indices a..b in order
Visits(a, b) == [i \in 1..(b - a + 1) |-> Int2Num(a + i - 1)]

LastIndex == Int2Num(IF totalSteps > 0 THEN totalSteps - 1 ELSE 0)

\* C11 as stated: when the playback awaited after play() at cursor c has
\* completed, the cursor is at totalSteps - 1 (0 for an empty trace), the
\* history is the one at the call followed by c+1, ..., totalSteps-1, and no
\* timer is active.
C11_PlaybackFromCursor ==
    (playedAt.on /\ replayState = "completed") =>
        /\ currentStepIndex = LastIndex
        /\ stepHistory = playedAt.history \o Visits(playedAt.cursor.v + 1, totalSteps - 1)
        /\ DOMAIN timers = {}

\* C11 amended: c is the cursor when play() returns, which is the cursor at
\* the call, or 0 with the history cleared when play() was called in state
\* 'completed'. Under fair ticks the playback eventually completes; then the
\* cursor is at totalSteps - 1 (0 for an empty trace), the history is the one
\* play() left followed by c+1, ..., totalSteps-1, and no timer is active; every
\* tick before that advanced the cursor by 1 and appended the new index; no
\* tick fires after 'completed'.
C11_PlaybackCompletes ==
    /\ [](playedAt.on => <>(replayState = "completed"))
    /\ []((playedAt.on /\ replayState = "completed") =>
            /\ currentStepIndex = LastIndex
            /\ stepHistory = playedAt.startHistory \o Visits(playedAt.start.v + 1, totalSteps - 1)
            /\ DOMAIN timers = {}
            /\ autoPlayInterval = Undefined)
    /\ [][(playedAt.on /\ lastCall'.op = "tick") =>
            /\ replayState = "playing"
            /\ \/ /\ replayState' = "playing"
                  /\ currentStepIndex' = NumAdd(currentStepIndex, 1)
                  /\ stepHistory' = Append(stepHistory, currentStepIndex')
               \/ /\ replayState' = "completed"
                  /\ UNCHANGED <<currentStepIndex, stepHistory>>]_vars

C11_Witness ==
    /\ playedAt.on
    /\ replayState = "completed"
    /\ totalSteps = MaxSteps
    /\ playedAt.from = "paused"
    /\ playedAt.cursor = Int2Num(1)
    /\ playedAt.history # << >>

\* some reset() emptied the history in this step
HistoryReset ==
    lastCall'.op = "reset" \/ (lastCall'.op = "play" /\ lastCall'.from = "completed")

\* C12: the history logs every index the cursor visits: an operation that
\* moves the cursor appends the new index, no operation but a reset changes or
\* removes an entry, and a non-empty history ends with the cursor's index.
C12_HistoryLogsCursor ==
    /\ [](stepHistory # << >> => stepHistory[Len(stepHistory)] = currentStepIndex)
    /\ [][~HistoryReset =>
            /\ Len(stepHistory') >= Len(stepHistory)
            /\ SubSeq(stepHistory', 1, Len(stepHistory)) = stepHistory
            /\ currentStepIndex' # currentStepIndex =>
                    stepHistory' = Append(stepHistory, currentStepIndex')]_vars

\* C13: with integer arguments the cursor is always an integer index of the
\* trace, or 0 when the trace is empty.
C13_CursorInRange ==
    /\ currentStepIndex.k = "int"
    /\ totalSteps = 0 => currentStepIndex.v = 0
    /\ totalSteps > 0 => (0 <= currentStepIndex.v /\ currentStepIndex.v < totalSteps)

C13_Witness ==
    /\ lastCall.op = "jumpToStep"
    /\ lastCall.arg = Int2Num(MaxSteps)
    /\ lastCall.ret = "false"
    /\ totalSteps = MaxSteps
    /\ currentStepIndex = Int2Num(MaxSteps - 1)

\* a step of stepForward() / stepBackward() that fails and changes nothing
StepFails ==
    /\ lastCall'.ret = "false"
    /\ UNCHANGED <<currentStepIndex, agentState, stepHistory>>

\* a step of stepForward() / stepBackward() that succeeds and moves by d
StepMoves(d) ==
    /\ lastCall'.ret = "true"
    /\ currentStepIndex' = NumAdd(currentStepIndex, d)

\* C14 as stated: stepBackward() at index 0 and stepForward() at index
\* totalSteps - 1 return false and change nothing; at every other position
\* they return true and move the cursor by -1 / +1.
C14_CursorBoundary ==
    [][/\ lastCall'.op = "stepBackward" =>
            IF currentStepIndex = Int2Num(0) THEN StepFails ELSE StepMoves(-1)
       /\ lastCall'.op = "stepForward" =>
            IF currentStepIndex = Int2Num(totalSteps - 1) THEN StepFails
            ELSE StepMoves(1)]_vars

\* C14 amended: as stated for a non-empty trace; on an empty trace (where no
\* index totalSteps - 1 exists) stepForward() at index 0 returns false and
\* changes nothing, too.
C14_CursorBoundaryNonEmpty ==
    [][/\ lastCall'.op = "stepBackward" =>
            IF currentStepIndex = Int2Num(0) THEN StepFails ELSE StepMoves(-1)
       /\ lastCall'.op = "stepForward" =>
            IF currentStepIndex = Int2Num(totalSteps - 1) \/ totalSteps = 0 THEN StepFails
            ELSE StepMoves(1)]_vars

C14_Witness ==
    /\ lastCall.op = "stepForward"
    /\ lastCall.ret = "false"
    /\ totalSteps = MaxSteps
    /\ currentStepIndex = Int2Num(MaxSteps - 1)
    /\ Len(stepHistory) = MaxSteps - 1

\* getStatus().progress in the current state
Progress == getStatus(World).progress

\* C15: progress is an integer in 0..100 and no stepForward() lowers it.
C15_ProgressMonotone ==
    /\ [](Progress.k = "int" /\ 0 <= Progress.v /\ Progress.v <= 100)
    /\ [][lastCall'.op = "stepForward" => NumGe(Progress', Progress)]_vars

C15_Witness ==
    /\ lastCall.op = "stepForward"
    /\ lastCall.ret = "true"
    /\ totalSteps = MaxSteps
    /\ currentStepIndex = Int2Num(MaxSteps - 1)
    /\ Progress.v > 50

\* C16: when stepForward(), jumpToEnd() or the playback has brought the cursor
\* to the last step of a non-empty trace, the reported progress is 100.
C16_ProgressAtEnd ==
    (/\ lastCall.op \in {"stepForward", "jumpToEnd", "tick"}
     /\ totalSteps > 0
     /\ currentStepIndex = Int2Num(totalSteps - 1)) => Progress = Int2Num(100)

\* the number of recorded steps of a type
CountOfType(stepType) ==
    Cardinality({i \in DOMAIN recorderTrace.steps : recorderTrace.steps[i].stepType = stepType})

\* C5: after every append through any recording operation, the generic
\* recordStep included, metadata.totalLLMCalls is the number of 'llm' steps
\* and metadata.totalToolCalls is the number of 'tool' steps.
C5_MetadataConsistency ==
    /\ recorderTrace.metadata.totalLLMCalls = CountOfType("llm")
    /\ recorderTrace.metadata.totalToolCalls = CountOfType("tool")

\* C6: after any sequence of recording operations the k-th step pushed has
\* stepNumber k (steps[i].stepNumber = i + 1 for the 0-based index i): step
\* numbers start at 1, increase strictly, have no gaps and follow insertion order.
C6_GaplessNumbering ==
    \A i \in DOMAIN recorderTrace.steps : recorderTrace.steps[i].stepNumber = i

C6_Witness ==
    /\ Len(recorderTrace.steps) = MaxRecorded
    /\ recorderTrace.steps[1].stepType = "start"
    /\ recorderTrace.steps[2].stepType = "tool"
    /\ lastCall.op = "recordErrorStep"
    /\ lastCall.ret = "throw"

\* C7: whatever the runtime does to its live state after a recording call,
\* every recorded stateSnapshot and the recorded finalState keep the value the
\* state had when they were taken.
C7_SnapshotsIndependent ==
    /\ \A i \in DOMAIN recorderTrace.steps :
            Deep(heap, recorderTrace.steps[i].stateSnapshot) = recorded[i]
    /\ recorderTrace.finalState # NoObject =>
            Deep(heap, recorderTrace.finalState) = recordedFinal

C7_Witness ==
    /\ pc = "done"
    /\ recorderTrace.finalState # NoObject
    /\ recordedFinal.status = "failed"
    /\ state.status = "paused"
    /\ \E i \in DOMAIN recorderTrace.steps :
          /\ recorded[i].currentStep < state.currentStep
          /\ recorded[i].memory # heap[state.memory]
          /\ recorded[i].context # heap[state.context]
          /\ recorded[i].lastOutput # state.lastOutput

LastStep == recorderTrace.steps[Len(recorderTrace.steps)]

NewSteps ==
    SubSeq(recorderTrace'.steps, Len(recorderTrace.steps) + 1, Len(recorderTrace'.steps))

\* in this step a tool threw, returned success = false, or was not registered
ToolFailed == lastCall'.op \in {"tool.reject", "tool.fail", "llm.resolve.unknownTool"}

C19_FinalizeOnce ==
    /\ finalized.calls <= 1
    /\ finalized.lateSteps = 0

RecorderOps ==
    {"recordLLMStep", "recordToolStep", "recordDecisionStep", "recordStateStep",
     "recordErrorStep", "finalize"}

\* the steps of a type in an artifact
ArtifactSteps(file, stepType) ==
    {i \in DOMAIN file.steps : file.steps[i].stepType = stepType}

\* an artifact holds every step with its metadata update and no update without
\* its step
ArtifactWhole(file) ==
    /\ file.metadata.totalLLMCalls = Cardinality(ArtifactSteps(file, "llm"))
    /\ file.metadata.totalToolCalls = Cardinality(ArtifactSteps(file, "tool"))
    /\ {file.metadata.toolsUsed[i] : i \in DOMAIN file.metadata.toolsUsed}
            = {file.steps[i].input.toolName : i \in ArtifactSteps(file, "tool")}

C21_WriteFailurePropagates ==
    /\ [](lastCall.op \in RecorderOps =>
            /\ writeLog.attempts = 1
            /\ (writeLog.rejected > 0 <=> lastCall.ret = "throw"))
    /\ [][(lastCall'.op \in RecorderOps /\ writeLog'.rejected > 0) => disk' = disk]_vars

C21_Witness ==
    /\ lastCall.op = "finalize"
    /\ lastCall.ret = "throw"
    /\ writeLog = [attempts |-> 1, rejected |-> 1]
    /\ Len(recorderTrace.steps) = 2
    /\ disk = [Serialize(recorderTrace, heap) EXCEPT
                  !.status = "running", !.endTime = "undefined", !.finalState = NoDeep]

\* C22: the agent run twice on the restaurant-booking goal with the scripted
\* provider and the demo tools records two traces with the same step count,
\* the same stepType and output at every index and the same finalState, so the
\* replay reports success, no divergence and matching step counts.
ReplayDone == originalTrace # NoFile /\ pc = "done"

ReplayTrace == Serialize(recorderTrace, heap)

C22_ReplayDeterminism ==
    ReplayDone =>
        /\ Len(originalTrace.steps) = Len(ReplayTrace.steps)
        /\ \A i \in DOMAIN originalTrace.steps \cap DOMAIN ReplayTrace.steps :
              /\ originalTrace.steps[i].stepType = ReplayTrace.steps[i].stepType
              /\ originalTrace.steps[i].output = ReplayTrace.steps[i].output
        /\ originalTrace.finalState = ReplayTrace.finalState
        /\ Compare(originalTrace, ReplayTrace).success
        /\ Compare(originalTrace, ReplayTrace).divergences = {}
        /\ Compare(originalTrace, ReplayTrace).stepCount.match

\* the tool names of the 'tool' steps, and the index of the first step of a tool
ToolSteps == {i \in DOMAIN recorderTrace.steps : recorderTrace.steps[i].stepType = "tool"}

FirstUse(name) ==
    CHOOSE i \in ToolSteps :
        /\ recorderTrace.steps[i].input.toolName = name
        /\ \A j \in ToolSteps : recorderTrace.steps[j].input.toolName = name => i <= j

\* C23: after any sequence of recording operations, metadata.toolsUsed holds
\* exactly the tool names that are input.toolName of some 'tool' step, each
\* once, in the order in which they were first seen.
C23_ToolsUsedExact ==
    LET toolsUsed == recorderTrace.metadata.toolsUsed IN
    /\ {toolsUsed[i] : i \in DOMAIN toolsUsed} =
            {recorderTrace.steps[i].input.toolName : i \in ToolSteps}
    /\ \A i, j \in DOMAIN toolsUsed : i < j =>
            /\ toolsUsed[i] # toolsUsed[j]
            /\ FirstUse(toolsUsed[i]) < FirstUse(toolsUsed[j])

\* C24: for every trace a recorder can construct, finalized or not, loading
\* what save() wrote gives a trace structurally equal to the trace in memory,
\* and saving an unchanged trace again writes the same artifact.
C24_RoundTrip ==
    /\ []((lastCall.op \in RecorderOps \cup {"save"}
                /\ lastCall.ret = "returned") =>
            load(disk) = Structure(recorderTrace, heap))
    /\ [][(lastCall'.op = "save" /\ lastCall'.ret = "returned" /\ disk # NoFile
                /\ recorderTrace' = recorderTrace
                /\ disk = Serialize(recorderTrace, heap)) => disk' = disk]_vars

\* C25: for every trace and query, searchSteps of the inspector and of the
\* controller select the same steps in the same order, the steps whose
\* JSON-serialized input or output contains the query whatever the case; and
\* getStepsByType of both select the same steps.
ContainsQuery(step, query) ==
    \/ includes(toLowerCase(Stringify(step.input)), toLowerCase(query))
    \/ includes(toLowerCase(Stringify(step.output)), toLowerCase(query))

C25_SearchAgrees ==
    /\ answer.op = "searchSteps" =>
            /\ answer.inspector = answer.controller
            /\ \A i \in DOMAIN trace.steps :
                    (\E k \in DOMAIN answer.controller : answer.controller[k] = i)
                        <=> ContainsQuery(trace.steps[i], answer.query)
            /\ \A k, l \in DOMAIN answer.controller :
                    k < l => answer.controller[k] < answer.controller[l]
    /\ answer.op = "getStepsByType" => answer.inspector = answer.controller

\* C26: for every trace and every step number n >= 2, the changes of
\* inspectStep(n) are empty iff the stateDifferences of compareSteps(n-2, n-1)
\* are empty, and both report a memory entry iff the numbers of memory keys
\* differ and a context entry iff the context lengths differ.
Reports(differences, labels) ==
    \E k \in DOMAIN differences : differences[k].label \in labels

C26_SameDiffPolicy ==
    (answer.op = "inspectStep" /\ answer.value # Null /\ answer.value.stepNumber >= 2) =>
        LET n == answer.value.stepNumber
            changes == answer.value.state.changes
            differences == compareSteps(Int2Num(n - 2), Int2Num(n - 1)).stateDifferences
            prev == Deep(heap, trace.steps[n - 1].stateSnapshot)
            curr == Deep(heap, trace.steps[n].stateSnapshot)
        IN /\ (changes = << >>) <=> (differences = << >>)
           /\ Reports(changes, {"memory keys"}) <=> Len(prev.memory) # Len(curr.memory)
           /\ Reports(differences, {"memory size"}) <=> Len(prev.memory) # Len(curr.memory)
           /\ Reports(changes, {"context items"}) <=> Len(prev.context) # Len(curr.context)
           /\ Reports(differences, {"context items"}) <=> Len(prev.context) # Len(curr.context)

\* C27: for every snapshot s that searchSteps(query) or getStepsByType(type)
\* returned, jumpToStep(s.stepNumber) succeeds and getCurrentStep() is then the
\* step numbered s.stepNumber.
C27_JumpLandsOnResult ==
    (lastCall.op = "jumpToStep" /\ answer.op \in {"searchSteps", "getStepsByType"}) =>
        /\ lastCall.ret = "true"
        /\ getCurrentStep(currentStepIndex) \notin {Null, Thrown}
        /\ Int2Num(getCurrentStep(currentStepIndex).stepNumber) = lastCall.arg

\* C28: compareSteps(a, b) never throws; with both indexes in range its
\* stateDifferences holds one entry per differing aspect among status,
\* currentStep, memory key count ("memory size: x -> y") and context length,
\* no other entry, in that order; with an index out of range that snapshot is
\* null and stateDifferences is empty; the call changes no controller state.
AspectOrder == <<"status", "currentStep", "memory size", "context items">>

AspectOf(label, snapshot) ==
    CASE label = "status" -> snapshot.status
      [] label = "currentStep" -> ToString(snapshot.currentStep)
      [] label = "memory size" -> ToString(Len(snapshot.memory))
      [] label = "context items" -> ToString(Len(snapshot.context))

ExpectedDifferences(a, b) ==
    LET s1 == Deep(heap, trace.steps[a + 1].stateSnapshot)
        s2 == Deep(heap, trace.steps[b + 1].stateSnapshot)
        F[k \in 0..Len(AspectOrder)] ==
            IF k = 0 THEN << >>
            ELSE IF AspectOf(AspectOrder[k], s1) # AspectOf(AspectOrder[k], s2)
                 THEN Append(F[k - 1], [label |-> AspectOrder[k],
                                        from |-> AspectOf(AspectOrder[k], s1),
                                        to |-> AspectOf(AspectOrder[k], s2)])
                 ELSE F[k - 1]
    IN F[Len(AspectOrder)]

IndexInRange(index) == index.v >= 0 /\ index.v < totalSteps

C29_StepRange ==
    answer.op = "getStepRange" =>
        LET inRange == {i \in 0..(totalSteps - 1) : answer.startStep <= i /\ i <= answer.endStep}
        IN /\ lastCall.ret = "returned"
           /\ Len(answer.value) = Cardinality(inRange)
           /\ \A i \in inRange :
                \E k \in DOMAIN answer.value :
                    answer.value[k] = SnapshotOf(trace.steps[i + 1])
           /\ \A k, l \in DOMAIN answer.value :
                k < l => answer.value[k].stepNumber < answer.value[l].stepNumber

\* C30: inspectStep(n) returns null iff no step of the trace is numbered n,
\* and never throws; otherwise hasPrevious is true iff a step numbered n-1
\* exists (previousStep is then n-1), hasNext is true iff a step numbered n+1
\* exists (nextStep is then n+1), and the changes of the first step are empty.
Numbered(n) == \E i \in 1..totalSteps : trace.steps[i].stepNumber = n

C30_InspectStep ==
    answer.op = "inspectStep" =>
        LET n == answer.stepNumber.v
            v == answer.value
        IN /\ lastCall.ret = "returned"
           /\ (v = Null) <=> ~Numbered(n)
           /\ v # Null =>
                /\ v.stepNumber = n
                /\ v.navigation.hasPrevious <=> Numbered(n - 1)
                /\ v.navigation.hasPrevious => v.navigation.previousStep = Int2Num(n - 1)
                /\ v.navigation.hasNext <=> Numbered(n + 1)
                /\ v.navigation.hasNext => v.navigation.nextStep = Int2Num(n + 1)
                /\ ~Numbered(n - 1) => v.state.changes = << >>

\* a step in the middle of a trace is inspected: both neighbours exist and
\* the state has changed since the previous step
C30_Witness ==
    /\ lastCall.op = "inspectStep"
    /\ answer.op = "inspectStep"
    /\ answer.stepNumber = Int2Num(2)
    /\ answer.value # Null
    /\ answer.value.navigation.hasPrevious
    /\ answer.value.navigation.previousStep = Int2Num(1)
    /\ answer.value.navigation.hasNext
    /\ answer.value.navigation.nextStep = Int2Num(3)
    /\ answer.value.state.changes # << >>

\* C31: getOverview() gives a step the severity 'error' iff the step has
\* stepType 'error' or is a 'tool' step whose output.success is false, and
\* 'ok' otherwise, never 'warning'; hasError is true exactly for severity
\* 'error'; the errors count is the number of summaries with severity 'error'.
FailedTool(step) ==
    /\ step.stepType = "tool"
    /\ "success" \in DOMAIN step.output
    /\ step.output.success = FALSE

C31_SeverityTags ==
    lastCall.op = "getOverview" =>
        LET summaries == answer.value.stepSummaries
        IN /\ Len(summaries) = Len(recorderTrace.steps)
           /\ \A i \in DOMAIN summaries :
                /\ summaries[i].severity \in {"ok", "error"}
                /\ summaries[i].severity = "error"
                     <=> (recorderTrace.steps[i].stepType = "error"
                          \/ FailedTool(recorderTrace.steps[i]))
                /\ summaries[i].hasError <=> summaries[i].severity = "error"
           /\ answer.value.errors =
                Cardinality({i \in DOMAIN summaries : summaries[i].severity = "error"})

\* the overview of a trace with a failed tool call, an error step and a
\* 'tool' step recorded without a success property
C31_Witness ==
    /\ lastCall.op = "getOverview"
    /\ Len(recorderTrace.steps) = 3
    /\ answer.value.errors = 2
    /\ \E i, j, k \in DOMAIN recorderTrace.steps :
            /\ FailedTool(recorderTrace.steps[i])
            /\ recorderTrace.steps[j].stepType = "error"
            /\ recorderTrace.steps[k].stepType = "tool"
            /\ "success" \notin DOMAIN recorderTrace.steps[k].output
            /\ answer.value.stepSummaries[k].severity = "ok"

\* C32: if the LLM returns shouldContinue = false at an iteration k of run(),
\* 1 <= k <= maxSteps, and nothing throws, the run ends with success = true,
\* the trace and its finalState have status 'completed', and the trace holds
\* no 'Max steps exceeded' error step.
MaxStepsExceeded(step) ==
    /\ step.stepType = "error"
    /\ step.output.error = "Max steps exceeded"

C32_DoneMeansCompleted ==
    lastCall.op = "llm.resolve.done" =>
        /\ pc = "done"
        /\ result = [kind |-> "resolved", success |-> TRUE]
        /\ recorderTrace.status = "completed"
        /\ recorderTrace.finalState # NoObject
        /\ recorderTrace.finalState.status = "completed"
        /\ \A i \in DOMAIN recorderTrace.steps : ~MaxStepsExceeded(recorderTrace.steps[i])

\* stop() was called during the run that is awaiting a call's result: only
\* stop() clears isRunning before the run ends
StoppedWhileAwaiting == pc \in {"llm", "tool"} /\ ~isRunning

\* C33: once stop() has been called during a run, at whatever suspension
\* point, the runtime starts no further LLM call and no further tool call,
\* and the run is finalized with a status other than 'completed'.
C33_StopEndsRun ==
    [][(StoppedWhileAwaiting /\ lastCall'.op # "runtime.stop") =>
            /\ pc' \notin {"llm", "tool"}
            /\ pc' = "done"
            /\ recorderTrace'.status \in {"failed"}
            /\ result'.success = FALSE]_vars

\* C34: in the extension's replay commands at most one auto-play timer is
\* active at any time, so that after the Pause or Stop command no automatic
\* advance of currentStepIndex occurs until Play is invoked again, whatever
\* commands came before (Play several times in a row included).
C34_ExtensionSingleTimer ==
    /\ [](Cardinality(DOMAIN timers) <= 1)
    /\ [][halted => ~(lastCall'.op = "acp.replay.tick"
                      /\ currentStepIndex' # currentStepIndex)]_vars

\* C35: run() performs at most maxSteps loop iterations, hence at most
\* maxSteps LLM calls and at most maxSteps tool calls, and then finalizes the
\* trace; state.currentStep never exceeds maxSteps. (Every call of the
\* specification returns or throws.)
C35_BoundedRun ==
    /\ state.currentStep <= maxSteps
    /\ CountOfType("llm") <= maxSteps
    /\ CountOfType("tool") <= maxSteps
    /\ pc = "done" => recorderTrace.status \in {"completed", "failed"}

\* C36: if the storage write fails inside a recordXStep, the in-memory trace
\* is left as it was before the call: no step is appended and no counter or
\* toolsUsed entry is changed, so that the in-memory trace and the last
\* artifact persisted still agree.
RecordFailed ==
    /\ lastCall'.op \in RecorderOps \ {"finalize"}
    /\ lastCall'.ret = "throw"

C36_FailedWriteLeavesTrace ==
    [][RecordFailed =>
        /\ recorderTrace'.steps = recorderTrace.steps
        /\ recorderTrace'.metadata = recorderTrace.metadata
        /\ disk' # NoFile => disk' = Serialize(recorderTrace', heap')]_vars

\* C37: for a non-empty trace, in every reachable state of the controller
\* (after construction and after any sequence of navigation, playback ticks
\* and resets) agentState equals the stateSnapshot of the step at
\* currentStepIndex, and getCurrentStep().stepNumber = currentStepIndex + 1.
C37_AgentStateAtCursor ==
    totalSteps > 0 =>
        /\ getCurrentStep(currentStepIndex) \notin {Null, Thrown}
        /\ Deep(heap, agentState) = Deep(heap, getCurrentStep(currentStepIndex).agentState)
        /\ Deep(heap, agentState)
                = Deep(heap, trace.steps[currentStepIndex.v + 1].stateSnapshot)
        /\ Int2Num(getCurrentStep(currentStepIndex).stepNumber) = NumAdd(currentStepIndex, 1)

\* C8 as stated: reset() in any playback state leaves playbackState 'idle',
\* the cursor at 0, the history empty, agentState the first step's snapshot
\* and no timer active.
C8_ResetGoesIdle ==
    lastCall.op = "reset" =>
        /\ replayState = "idle"
        /\ currentStepIndex = Int2Num(0)
        /\ stepHistory = << >>
        /\ totalSteps > 0 => agentState = FirstSnapshot
        /\ DOMAIN timers = {}

\* C8 amended: reset() in any playback state leaves playbackState 'stopped',
\* the cursor at 0, the history empty, agentState the first step's snapshot
\* (when the trace has a step) and no timer active.
C8_ResetGoesStopped ==
    lastCall.op = "reset" =>
        /\ replayState = "stopped"
        /\ currentStepIndex = Int2Num(0)
        /\ stepHistory = << >>
        /\ totalSteps > 0 => agentState = FirstSnapshot
        /\ DOMAIN timers = {}
        /\ autoPlayInterval = Undefined

C8_Witness ==
    /\ lastCall.op = "reset"
    /\ lastCall.from = "playing"
    /\ totalSteps = MaxSteps
    /\ trace.steps[1].stateSnapshot.currentStep # trace.steps[2].stateSnapshot.currentStep

C10_PlayAfterCompleted ==
    (lastCall.op = "play" /\ lastCall.from = "completed") =>
        /\ currentStepIndex = Int2Num(0)
        /\ stepHistory = << >>
        /\ totalSteps > 0 => agentState = FirstSnapshot
        /\ replayState = "playing"
        /\ Cardinality(DOMAIN timers) = 1
        /\ autoPlayInterval \in DOMAIN timers
        /\ timers[autoPlayInterval] = lastCall.arg.v

C10_Witness ==
    /\ lastCall.op = "play"
    /\ lastCall.from = "completed"
    /\ totalSteps = MaxSteps
    /\ replayState = "playing"

\* C38: the flags of getStatus() agree with the navigation that follows at
\* once: stepForward() returns true exactly when canPlayForward was true,
\* stepBackward() exactly when canPlayBackward was true, and jumpToStep(n)
\* exactly when canJump(n) was true.
C38_StatusAgreesWithNavigation ==
    [][/\ lastCall'.op = "stepForward" =>
            (lastCall'.ret = "true" <=> getStatus(World).canPlayForward)
       /\ lastCall'.op = "stepBackward" =>
            (lastCall'.ret = "true" <=> getStatus(World).canPlayBackward)
       /\ lastCall'.op = "jumpToStep" =>
            (lastCall'.ret = "true" <=> canJump(lastCall'.arg))]_vars

\* C39: manual navigation (jumpToStep, stepForward, stepBackward, jumpToStart,
\* jumpToEnd) and the reads getStatus() and getCurrentStep() leave the playback state and the timer
\* as they were; a tick that follows navigation while 'playing' advances
\* from the new cursor and the playback stays 'playing'.
NavigationOps == {"jumpToStep", "stepForward", "stepBackward", "jumpToStart", "jumpToEnd"}
ReadOps == {"getStatus", "getCurrentStep"}

====
